---- MODULE Spec2Model ----
(***************************************************************************)
(* Verification model of rules_minidock_tools.                             *)
(*                                                                         *)
(*   Spec      the pusher (app/pusher_app.rs main) and the per-blob        *)
(*             ensure_present state machine (src/registry/ops.rs) run by   *)
(*             its spawned tasks against destination and source registries *)
(*   SpecHttp  the retry loop of HttpCli::request                          *)
(*             (src/registry/http/http_cli/mod.rs)                         *)
(***************************************************************************)
EXTENDS Integers, Sequences, FiniteSets, TLC

(***************************************************************************)
(* Bounds                                                                  *)
(***************************************************************************)
\* number of destination registries of a pusher run
NumDests == 1
\* largest `retries` an HttpCli::request call is made with
MaxRetries == 4
\* layers of the large manifest of the blob transfers
ManyLayers == 33
\* the longest MergeConfig.infos given to merge()
MaxInfos == 2

VARIABLES
    \* ---- pusher -------------------------------------------------------
    local_digests,     \* RequestState.local_digests: digest -> local path
    source_registry,   \* RequestState.source_registry: "none" or a name
    reg,               \* blobs each registry repository is known to hold
    tags_stored,       \* manifests stored by each destination, per tag
    dirs,              \* directories that exist on disk
    files,             \* files on disk: path -> content
    task,              \* tokio_data: the spawned blob tasks
    mtask,             \* the spawned manifest upload tasks
    main,              \* position of main and the merged ActionsTaken
    \* ---- HttpCli::request -----------------------------------------------
    auth_info,         \* HttpCli.auth_info: the shared bearer token slot
    tokens_issued,     \* number of tokens the auth server has handed out
    req,               \* the HttpCli::request calls in progress
    \* ---- blob transfers of a large manifest ----------------------------
    io,                \* ensure_present tasks before, in and after their
                       \* upload_blob
    \* ---- merge ---------------------------------------------------------
    dl,                \* ConfigDelta values and the results of update_with
    mg,                \* a call of merge(): its arguments and its locals
    \* ---- functions applied to drawn inputs ----------------------------
    sd,                \* a value, its JSON and what is parsed back from it
    mm,                \* merge_main after merge(): its locals and files
    ah,                \* a WWW-Authenticate header and what is made of it
    tg,                \* the tag options of the pusher and load_tags' result
    db,                \* one call of download_blob: its locals and target file
    call               \* one call of a function followed alone: arguments, locals, result

pusherVars == <<local_digests, source_registry, reg,
                tags_stored, dirs, files, task, mtask, main>>
vars == <<local_digests, source_registry, reg,
          tags_stored, dirs, files, task, mtask, main,
          auth_info, tokens_issued, req, io, dl, mg, sd, mm, ah, tg, db,
          call>>
httpVars == <<auth_info, tokens_issued, req>>
ioVars == <<io>>
mergeVars == <<dl, mg>>
pureVars == <<sd, mm, ah, tg, db, call>>
\* the variables of the other parts, which the pusher and HttpCli::request
\* leave alone
restVars == <<ioVars, mergeVars, pureVars>>

(***************************************************************************)
(* Registries, blobs, paths                                                *)
(***************************************************************************)
Dests == 1..NumDests

DestName(r) == "dest" \o ToString(r)
SourceName == "source"
Registries == {DestName(r) : r \in Dests} \cup {SourceName}

\* BlobReference: the digest is "sha256:" followed by hex; only hex is kept.
\* The manifest that is pushed: an image of one layer.
manifest ==
    [config |-> [digest |-> "c0", size |-> 2],
     layers |-> <<[digest |-> "d1", size |-> 1]>>]
Layers == DOMAIN manifest.layers
\* load_tags: the tags the manifest is pushed under, sorted, no duplicates
tags == <<"latest">>
Tags == DOMAIN tags
NumTags == Len(tags)
NumLayers == Len(manifest.layers)
LayerBlobs == {manifest.layers[i] : i \in Layers}

\* content of a file or of a received body: the sha256 of its bytes and
\* their number
ContentOf(blob) == [sha |-> blob.digest, len |-> blob.size]

Join(path, name) == Append(path, name)
opt_cache_path == <<"cache">>
\* main: the cache_path handed to every RequestState, and the directory
\* main creates before it spawns the tasks
cache_path == Join(opt_cache_path, "tmp")
tmp_cache_path == Join(opt_cache_path, "tmp")
LocalPath(d) == <<"bazel-out", d>>
TmpConfigPath == <<"tmp", "config">>

WriteFile(fs, p, c) == (p :> c) @@ fs
RemoveFile(fs, p) == [q \in (DOMAIN fs) \ {p} |-> fs[q]]
RenameFile(fs, from, to) ==
    IF from \in DOMAIN fs
    THEN WriteFile(RemoveFile(fs, from), to, fs[from])
    ELSE fs

(***************************************************************************)
(* ActionsTaken                                                            *)
(***************************************************************************)
ActionsTakenDefault ==
    [already_present |-> 0, already_present_size |-> 0,
     copied_from_source_repository |-> 0,
     copied_from_source_repository_size |-> 0,
     uploaded_from_local |-> 0, uploaded_from_local_size |-> 0,
     downloaded_from_source_repository |-> 0,
     downloaded_from_source_repository_size |-> 0,
     uploaded_data_from_source_repository |-> 0,
     uploaded_data_from_source_repository_size |-> 0]

\* already_present without the size
already_present_no_size(blob) ==
    [ActionsTakenDefault EXCEPT !.already_present = 1]

already_present(blob) ==
    [ActionsTakenDefault EXCEPT !.already_present = 1,
                                !.already_present_size = blob.size]

copied_from_source_repository(blob) ==
    [ActionsTakenDefault EXCEPT !.copied_from_source_repository = 1,
                                !.copied_from_source_repository_size = blob.size]

uploaded_from_local(blob) ==
    [ActionsTakenDefault EXCEPT !.uploaded_from_local = 1,
                                !.uploaded_from_local_size = blob.size]

\* uploaded_data_from_source_repository that always counts a download
uploaded_data_always_downloaded(blob, downloaded) ==
    [ActionsTakenDefault EXCEPT
        !.uploaded_data_from_source_repository = 1,
        !.uploaded_data_from_source_repository_size = blob.size,
        !.downloaded_from_source_repository = 1,
        !.downloaded_from_source_repository_size = blob.size]

uploaded_data_from_source_repository(blob, downloaded) ==
    [ActionsTakenDefault EXCEPT
        !.uploaded_data_from_source_repository = 1,
        !.uploaded_data_from_source_repository_size = blob.size,
        !.downloaded_from_source_repository = IF downloaded THEN 1 ELSE 0,
        !.downloaded_from_source_repository_size =
            IF downloaded THEN blob.size ELSE 0]

\* merge that leaves out the uploads of local files
ActionsTakenMergeWithoutLocal(self, other) ==
    [k \in DOMAIN self |->
        IF k \in {"uploaded_from_local", "uploaded_from_local_size"}
        THEN self[k] ELSE self[k] + other[k]]

ActionsTakenMerge(self, other) ==
    [k \in DOMAIN self |-> self[k] + other[k]]

(***************************************************************************)
(* Registry operations as seen by their callers                            *)
(***************************************************************************)
Repository == "repo"
SourceRepository == "base"
DigestString(d) == "sha256:" \o d

\* HttpRegistry::repository_uri_from_path / v2_from_path
v2_from_path(path) == <<"/v2">> \o path
repository_uri_from_path(name, path) == v2_from_path(<<"/" \o name>> \o path)

\* the URI try_copy_from posts to
try_copy_from_uri(name, digest, source_repo) ==
    repository_uri_from_path(name,
        <<"/uploads/", "?mount=", digest, "from=", source_repo>>)

\* the cross-repository mount route of the registry API
RegistryMountRoute(name, digest, source_repo) ==
    <<"/v2", "/" \o name, "/blobs/uploads/", "?mount=", digest,
      "&from=", source_repo>>

\* blob_exists: HEAD /blobs/<d>
blob_exists(status) ==
    IF status = 404 THEN "false"
    ELSE IF status = 200 THEN "true"
    ELSE "err"

\* try_copy_from: the result for the status of the mount POST
try_copy_from(status) ==
    IF status = 404 THEN "ok_false"
    ELSE IF status = 201 THEN "ok_true"
    ELSE "err"

\* upload_blob without the checks of the PUT response
upload_blob_unchecked(have_file, post, put) ==
    IF post.status # 202 THEN [ok |-> FALSE, put_sent |-> FALSE]
    ELSE IF ~post.location THEN [ok |-> FALSE, put_sent |-> FALSE]
    ELSE IF ~have_file THEN [ok |-> FALSE, put_sent |-> FALSE]
    ELSE [ok |-> TRUE, put_sent |-> TRUE]

\* upload_blob: POST /blobs/uploads/, then PUT to the Location
upload_blob(have_file, post, put) ==
    IF post.status # 202 THEN [ok |-> FALSE, put_sent |-> FALSE]
    ELSE IF ~post.location THEN [ok |-> FALSE, put_sent |-> FALSE]
    ELSE IF ~have_file THEN [ok |-> FALSE, put_sent |-> FALSE]
    ELSE IF put.status # 201 /\ put.status # 200
         THEN [ok |-> FALSE, put_sent |-> TRUE]
    ELSE IF ~put.location THEN [ok |-> FALSE, put_sent |-> TRUE]
    ELSE [ok |-> TRUE, put_sent |-> TRUE]

\* download_blob that accepts whatever a 200 response carries
download_blob_any_sha(resp, digest, length) ==
    IF resp.status # 200 THEN [ok |-> FALSE, written |-> FALSE]
    ELSE [ok |-> TRUE, written |-> TRUE]

\* download_blob: GET /blobs/<d>, stream to target_file, compare the sha
download_blob(resp, digest, length) ==
    IF resp.status # 200 THEN [ok |-> FALSE, written |-> FALSE]
    ELSE IF resp.body.sha # digest THEN [ok |-> FALSE, written |-> TRUE]
    ELSE [ok |-> TRUE, written |-> TRUE]

(***************************************************************************)
(* The registries (external): the answers a registry can give.  A registry *)
(* never deletes a blob; reg[r] holds the digests it is known to hold,     *)
(* because it stored an upload or answered 200 for them.  Other clients    *)
(* push to the same repositories, so a blob outside reg[r] may be there.   *)
(***************************************************************************)
HeadBlobStatuses(r, d) ==
    (IF d \in reg[r] THEN {200} ELSE {200, 404}) \cup {500}

\* what is known of registry r after it answered a HEAD for d with status
Observed(r, d, status) ==
    IF status = 200 THEN [reg EXCEPT ![r] = @ \cup {d}] ELSE reg

MountStatuses(r, uri, d) ==
    IF uri = RegistryMountRoute(Repository, DigestString(d), SourceRepository)
       /\ d \in reg[SourceName]
    THEN {201, 202, 500}
    ELSE {404, 202, 500}

PostUploadResponses ==
    {[status |-> 202, location |-> TRUE],
     [status |-> 202, location |-> FALSE],
     [status |-> 500, location |-> FALSE]}

PutBlobResponses(content, d) ==
    IF content.sha = d
    THEN {[status |-> 201, location |-> TRUE],
          [status |-> 200, location |-> TRUE],
          [status |-> 201, location |-> FALSE],
          [status |-> 500, location |-> FALSE]}
    ELSE {[status |-> 400, location |-> FALSE]}

CorruptBody(blob) == [sha |-> "corrupt", len |-> blob.size]
TruncatedBody(blob) == [sha |-> "truncated", len |-> blob.size - 1]
NoBody == [sha |-> "empty", len |-> 0]

GetBlobResponses(r, blob) ==
    IF blob.digest \in reg[r]
    THEN {[status |-> 200, body |-> ContentOf(blob)],
          [status |-> 200, body |-> CorruptBody(blob)],
          [status |-> 200, body |-> TruncatedBody(blob)],
          [status |-> 500, body |-> NoBody]}
    ELSE {[status |-> 404, body |-> NoBody]}

(***************************************************************************)
(* The spawned blob tasks (tokio_data of main)                             *)
(***************************************************************************)
TaskIds == 1..(NumDests * (NumLayers + 1))
TaskDest(t) == ((t - 1) \div (NumLayers + 1)) + 1
TaskSlot(t) == ((t - 1) % (NumLayers + 1)) + 1
IsLayerTask(t) == TaskSlot(t) <= NumLayers
TaskBlob(t) ==
    IF IsLayerTask(t) THEN manifest.layers[TaskSlot(t)] ELSE manifest.config
Dest(t) == DestName(TaskDest(t))

NoCalls == [dest_exists |-> 0, source_exists |-> 0, try_copy |-> 0,
            upload |-> 0, put |-> 0, download |-> 0]

TaskInit ==
    [pc |-> "unspawned", result |-> "none", error |-> "none",
     actions |-> ActionsTakenDefault,
     first |-> "none", src1 |-> "none", mount |-> "none", post |-> "none",
     src2 |-> "none", cache_seen |-> "none", downloaded |-> FALSE, via |-> "none",
     upath |-> <<>>, tmp |-> <<>>, calls |-> NoCalls]

Called(tr, what) == [tr EXCEPT !.calls[what] = @ + 1]
ReturnOk(tr, actions) ==
    [tr EXCEPT !.pc = "done", !.result = "ok", !.actions = actions]
ReturnErr(tr, e) ==
    [tr EXCEPT !.pc = "done", !.result = "err", !.error = e]

MainRunning == main.pc \in {"join", "join_manifests"}
TmpName(t) == ".tmp" \o ToString(t)

(***************************************************************************)
(* ensure_present (src/registry/ops.rs)                                    *)
(***************************************************************************)
\* paths ensure_present derives from RequestState.cache_path
ensure_tmp_cache_path(cp) == Join(cp, "tmp")
expected_path(cp, digest) == Join(cp, digest)

\* the code after the copy attempt with a bail that returns Ok instead
LocalOrSourceNoBail(tr, blob) ==
    IF blob.digest \in DOMAIN local_digests
    THEN [tr EXCEPT !.pc = "upload", !.via = "local",
                    !.upath = local_digests[blob.digest]]
    ELSE IF source_registry = "none"
         THEN ReturnOk(tr, ActionsTakenDefault)
         ELSE [tr EXCEPT !.pc = "src_check2"]

\* the code after the copy attempt up to its next request: the local file
\* if there is one, else the second with_source_present, which answers
\* None without a request when no source registry is configured
LocalOrSource(tr, blob) ==
    IF blob.digest \in DOMAIN local_digests
    THEN [tr EXCEPT !.pc = "upload", !.via = "local",
                    !.upath = local_digests[blob.digest]]
    ELSE IF source_registry = "none"
         THEN ReturnErr(tr, "BlobUnavailable")
         ELSE [tr EXCEPT !.pc = "src_check2"]

\* the first destination_present has answered
AfterDestinationPresent(tr, blob, res) ==
    IF res = "err" THEN ReturnErr([tr EXCEPT !.first = res], "BlobExists")
    ELSE IF res = "true"
         THEN ReturnOk([tr EXCEPT !.first = res], already_present(blob))
    ELSE IF source_registry = "none"
         THEN LocalOrSource([tr EXCEPT !.first = res], blob)
         ELSE [tr EXCEPT !.first = res, !.pc = "src_check1"]

\* the first with_source_present has answered, a local file being uploaded
\* without the copy attempt
AfterSourcePresentLocalFirst(tr, blob, res) ==
    IF res = "err" THEN ReturnErr([tr EXCEPT !.src1 = res], "BlobExists")
    ELSE IF res = "true" /\ blob.digest \notin DOMAIN local_digests
         THEN [tr EXCEPT !.src1 = res, !.pc = "try_copy"]
    ELSE LocalOrSource([tr EXCEPT !.src1 = res], blob)

\* the first with_source_present has answered
AfterSourcePresent(tr, blob, res) ==
    IF res = "err" THEN ReturnErr([tr EXCEPT !.src1 = res], "BlobExists")
    ELSE IF res = "true" THEN [tr EXCEPT !.src1 = res, !.pc = "try_copy"]
    ELSE LocalOrSource([tr EXCEPT !.src1 = res], blob)

\* try_copy_from has returned, with `?` on its result
AfterTryCopyPropagated(tr, res) ==
    IF res = "err" THEN ReturnErr([tr EXCEPT !.mount = res], "TryCopy")
    ELSE [tr EXCEPT !.mount = res, !.pc = "post_check"]

\* try_copy_from has returned: an error is logged and dropped
AfterTryCopy(tr, res) == [tr EXCEPT !.mount = res, !.pc = "post_check"]

\* the check after the copy, with a local file uploaded all the same
AfterPostCopyPresentLocalFirst(tr, blob, res) ==
    IF res = "err" THEN ReturnErr([tr EXCEPT !.post = res], "BlobExists")
    ELSE IF res = "true" /\ blob.digest \notin DOMAIN local_digests
         THEN ReturnOk([tr EXCEPT !.post = res],
                       copied_from_source_repository(blob))
    ELSE LocalOrSource([tr EXCEPT !.post = res], blob)

\* the destination_present made after the copy has answered
AfterPostCopyPresent(tr, blob, res) ==
    IF res = "err" THEN ReturnErr([tr EXCEPT !.post = res], "BlobExists")
    ELSE IF res = "true"
         THEN ReturnOk([tr EXCEPT !.post = res],
                       copied_from_source_repository(blob))
    ELSE LocalOrSource([tr EXCEPT !.post = res], blob)

\* upload_blob has returned, a failed upload of the local file sending
\* ensure_present on to the source registry
AfterUploadThenSource(tr, blob, ok) ==
    IF ~ok /\ tr.via = "local" /\ source_registry # "none"
    THEN [tr EXCEPT !.pc = "src_check2"]
    ELSE IF ~ok THEN ReturnErr(tr, "Upload")
    ELSE IF tr.via = "local" THEN ReturnOk(tr, uploaded_from_local(blob))
    ELSE IF tr.via = "source"
         THEN ReturnOk(tr, uploaded_data_from_source_repository(
                               blob, tr.downloaded))
    ELSE ReturnOk(tr, ActionsTakenDefault)

\* upload_blob has returned
AfterUpload(tr, blob, ok) ==
    IF ~ok THEN ReturnErr(tr, "Upload")
    ELSE IF tr.via = "local" THEN ReturnOk(tr, uploaded_from_local(blob))
    ELSE IF tr.via = "source"
         THEN ReturnOk(tr, uploaded_data_from_source_repository(
                               blob, tr.downloaded))
    ELSE ReturnOk(tr, ActionsTakenDefault)

DestinationPresent(t) ==
    /\ MainRunning
    /\ task[t].pc = "dest_check"
    /\ \E status \in HeadBlobStatuses(Dest(t), TaskBlob(t).digest) :
         /\ reg' = Observed(Dest(t), TaskBlob(t).digest, status)
         /\ task' = [task EXCEPT ![t] =
                       AfterDestinationPresent(Called(@, "dest_exists"),
                                               TaskBlob(t), blob_exists(status))]
    /\ UNCHANGED <<local_digests, source_registry,
                   tags_stored, dirs, files, mtask, main, httpVars, restVars>>

SourcePresent(t) ==
    /\ MainRunning
    /\ task[t].pc = "src_check1"
    /\ \E status \in HeadBlobStatuses(source_registry, TaskBlob(t).digest) :
         /\ reg' = Observed(source_registry, TaskBlob(t).digest, status)
         /\ task' = [task EXCEPT ![t] =
                       AfterSourcePresent(Called(@, "source_exists"),
                                          TaskBlob(t), blob_exists(status))]
    /\ UNCHANGED <<local_digests, source_registry,
                   tags_stored, dirs, files, mtask, main, httpVars, restVars>>

TryCopyFrom(t) ==
    /\ MainRunning
    /\ task[t].pc = "try_copy"
    /\ LET d == TaskBlob(t).digest
           uri == try_copy_from_uri(Repository, DigestString(d),
                                    SourceRepository)
       IN \E status \in MountStatuses(Dest(t), uri, d) :
            /\ reg' = IF status = 201
                      THEN [reg EXCEPT ![Dest(t)] = @ \cup {d}]
                      ELSE reg
            /\ task' = [task EXCEPT ![t] =
                          AfterTryCopy(Called(@, "try_copy"),
                                       try_copy_from(status))]
    /\ UNCHANGED <<local_digests, source_registry,
                   tags_stored, dirs, files, mtask, main, httpVars, restVars>>

DestinationPresentPostCopy(t) ==
    /\ MainRunning
    /\ task[t].pc = "post_check"
    /\ \E status \in HeadBlobStatuses(Dest(t), TaskBlob(t).digest) :
         /\ reg' = Observed(Dest(t), TaskBlob(t).digest, status)
         /\ task' = [task EXCEPT ![t] =
                       AfterPostCopyPresent(Called(@, "dest_exists"),
                                            TaskBlob(t), blob_exists(status))]
    /\ UNCHANGED <<local_digests, source_registry,
                   tags_stored, dirs, files, mtask, main, httpVars, restVars>>

\* the second with_source_present has answered; on Some the cache file is
\* looked up and, if it is missing, the temporary file is created
SourcePresentForDownload(t) ==
    /\ MainRunning
    /\ task[t].pc = "src_check2"
    /\ \E status \in HeadBlobStatuses(source_registry, TaskBlob(t).digest) :
         /\ reg' = Observed(source_registry, TaskBlob(t).digest, status)
         /\ LET res == blob_exists(status)
                tr == [Called(task[t], "source_exists") EXCEPT !.src2 = res]
                expected == expected_path(cache_path, TaskBlob(t).digest)
                tmp_dir == ensure_tmp_cache_path(cache_path)
                tmp == Join(tmp_dir, TmpName(t))
            IN IF res = "err"
               THEN /\ task' = [task EXCEPT ![t] = ReturnErr(tr, "BlobExists")]
                    /\ files' = files
               ELSE IF res = "false"
               THEN /\ task' = [task EXCEPT ![t] =
                                   ReturnErr(tr, "BlobUnavailable")]
                    /\ files' = files
               ELSE IF expected \in DOMAIN files
               THEN /\ task' = [task EXCEPT ![t] =
                                   [tr EXCEPT !.pc = "upload", !.via = "source",
                                              !.cache_seen = "exists",
                                              !.upath = expected]]
                    /\ files' = files
               ELSE IF tmp_dir \notin dirs
               THEN /\ task' = [task EXCEPT ![t] =
                                   ReturnErr([tr EXCEPT !.cache_seen = "absent"],
                                             "TempFile")]
                    /\ files' = files
               ELSE /\ task' = [task EXCEPT ![t] =
                                   [tr EXCEPT !.pc = "download",
                                              !.cache_seen = "absent",
                                              !.tmp = tmp]]
                    /\ files' = WriteFile(files, tmp, NoBody)
    /\ UNCHANGED <<local_digests, source_registry,
                   tags_stored, dirs, mtask, main, httpVars, restVars>>

\* download_blob into the temporary file has returned; on Ok the file is
\* renamed to the cache file, on Err the NamedTempFile is dropped
DownloadBlob(t) ==
    /\ MainRunning
    /\ task[t].pc = "download"
    /\ \E resp \in GetBlobResponses(source_registry, TaskBlob(t)) :
         LET blob == TaskBlob(t)
             tr == Called(task[t], "download")
             res == download_blob(resp, blob.digest, blob.size)
             expected == expected_path(cache_path, blob.digest)
             written == IF res.written
                        THEN WriteFile(files, tr.tmp, resp.body)
                        ELSE files
         IN IF res.ok
            THEN /\ files' = RenameFile(written, tr.tmp, expected)
                 /\ task' = [task EXCEPT ![t] =
                                [tr EXCEPT !.pc = "upload", !.via = "source",
                                           !.downloaded = TRUE,
                                           !.tmp = <<>>,
                                           !.upath = expected]]
            ELSE /\ files' = RemoveFile(written, tr.tmp)
                 /\ task' = [task EXCEPT ![t] =
                                ReturnErr([tr EXCEPT !.tmp = <<>>],
                                          "Download")]
    /\ UNCHANGED <<local_digests, source_registry, reg,
                   tags_stored, dirs, mtask, main, httpVars, restVars>>

\* upload_blob (of a layer by ensure_present, of the config by its task)
UploadBlob(t) ==
    /\ MainRunning
    /\ task[t].pc = "upload"
    /\ LET blob == TaskBlob(t)
           have == task[t].upath \in DOMAIN files
           content == IF have THEN files[task[t].upath] ELSE NoBody
       IN \E post \in PostUploadResponses :
          \E put \in PutBlobResponses(content, blob.digest) :
            LET res == upload_blob(have, post, put)
                stored == res.put_sent /\ put.status \in {200, 201}
                tr == [Called(task[t], "upload") EXCEPT
                          !.calls.put = @ + (IF res.put_sent THEN 1 ELSE 0)]
            IN /\ reg' = IF stored
                         THEN [reg EXCEPT ![Dest(t)] = @ \cup {blob.digest}]
                         ELSE reg
               /\ task' = [task EXCEPT ![t] = AfterUpload(tr, blob, res.ok)]
    /\ UNCHANGED <<local_digests, source_registry,
                   tags_stored, dirs, files, mtask, main, httpVars, restVars>>

(***************************************************************************)
(* The config blob task of main (pusher_app.rs)                            *)
(***************************************************************************)
AfterConfigExists(tr, res) ==
    IF res = "true" THEN ReturnOk([tr EXCEPT !.first = res],
                                  ActionsTakenDefault)
    ELSE IF res = "err" THEN ReturnErr([tr EXCEPT !.first = res],
                                       "BlobExists")
    ELSE [tr EXCEPT !.first = res, !.pc = "upload", !.via = "config",
                    !.upath = TmpConfigPath]

ConfigBlobExists(t) ==
    /\ MainRunning
    /\ task[t].pc = "cfg_exists"
    /\ \E status \in HeadBlobStatuses(Dest(t), TaskBlob(t).digest) :
         /\ reg' = Observed(Dest(t), TaskBlob(t).digest, status)
         /\ task' = [task EXCEPT ![t] =
                       AfterConfigExists(Called(@, "dest_exists"),
                                         blob_exists(status))]
    /\ UNCHANGED <<local_digests, source_registry,
                   tags_stored, dirs, files, mtask, main, httpVars, restVars>>

(***************************************************************************)
(* main of the pusher (app/pusher_app.rs)                                  *)
(***************************************************************************)
MTaskIds == 1..(NumDests * NumTags)
MTaskDest(m) == ((m - 1) \div NumTags) + 1
MTaskTag(m) == ((m - 1) % NumTags) + 1

MTaskInit == [pc |-> "unspawned", result |-> "none", location |-> FALSE,
              gets |-> 0, puts |-> 0, call |-> 1, fetched |-> "none",
              put_now |-> FALSE, prev |-> "none"]

Prefixes(path) == {SubSeq(path, 1, k) : k \in 1..Len(path)}

\* main spawning the layer tasks and leaving the config tasks for later
SpawnLayerTasksOnly ==
    /\ main.pc = "setup"
    /\ dirs' = dirs \cup Prefixes(tmp_cache_path)
    /\ task' = [t \in TaskIds |->
                  IF IsLayerTask(t) THEN [TaskInit EXCEPT !.pc = "dest_check"]
                  ELSE TaskInit]
    /\ main' = [main EXCEPT !.pc = "join", !.idx = 1]
    /\ UNCHANGED <<local_digests, source_registry, reg,
                   tags_stored, files, mtask, httpVars, restVars>>

\* main creates <cache>/tmp, builds one RequestState per destination and
\* spawns, per destination, one ensure_present per layer and the config task
SpawnBlobTasks ==
    /\ main.pc = "setup"
    /\ dirs' = dirs \cup Prefixes(tmp_cache_path)
    /\ task' = [t \in TaskIds |->
                  [TaskInit EXCEPT !.pc = IF IsLayerTask(t)
                                          THEN "dest_check"
                                          ELSE "cfg_exists"]]
    /\ main' = [main EXCEPT !.pc = "join", !.idx = 1]
    /\ UNCHANGED <<local_digests, source_registry, reg,
                   tags_stored, files, mtask, httpVars, restVars>>

\* the join loop with the results of the tasks ignored
AfterJoinIgnoringErrors(m, tr, skip_manifest_upload) ==
    LET merged == ActionsTakenMerge(m.actions, tr.actions)
    IN IF m.idx < NumDests * (NumLayers + 1)
       THEN [m EXCEPT !.actions = merged, !.idx = @ + 1]
       ELSE IF skip_manifest_upload
       THEN [m EXCEPT !.actions = merged, !.pc = "done", !.result = "ok"]
       ELSE [m EXCEPT !.actions = merged, !.pc = "join_manifests",
                      !.idx = 1]

\* one turn of `for join_result in tokio_data { merge(join_result.await??) }`
\* and, after the last one, the code up to the manifest tasks
AfterJoin(m, tr, skip_manifest_upload) ==
    IF tr.result = "err"
    THEN [m EXCEPT !.pc = "done", !.result = "err"]
    ELSE LET merged == ActionsTakenMerge(m.actions, tr.actions)
         IN IF m.idx < NumDests * (NumLayers + 1)
            THEN [m EXCEPT !.actions = merged, !.idx = @ + 1]
            ELSE IF skip_manifest_upload
            THEN [m EXCEPT !.actions = merged, !.pc = "done",
                           !.result = "ok"]
            ELSE [m EXCEPT !.actions = merged, !.pc = "join_manifests",
                           !.idx = 1]

\* the temporary files of the tasks that are dropped with the runtime
DropTempFiles(fs) ==
    [q \in (DOMAIN fs) \ {task[t].tmp : t \in TaskIds} |-> fs[q]]

JoinBlobTask ==
    /\ main.pc = "join"
    /\ task[main.idx].result # "none"
    /\ \E skip_manifest_upload \in BOOLEAN :
         main' = AfterJoin(main, task[main.idx], skip_manifest_upload)
    /\ mtask' = IF main'.pc = "join_manifests"
                THEN [m \in MTaskIds |-> [MTaskInit EXCEPT !.pc = "get"]]
                ELSE mtask
    /\ files' = IF main'.pc = "done" THEN DropTempFiles(files) ELSE files
    /\ UNCHANGED <<local_digests, source_registry, reg,
                   tags_stored, dirs, task, httpVars, restVars>>

\* upload_manifest that returns None whenever the GET of the tag succeeds
upload_manifest_skip_any(fetch) == fetch.ok

\* upload_manifest: the GET of the tag; equal bytes end the call with None
upload_manifest_skip(fetch) == fetch.ok /\ fetch.content = "ours"

\* what the GET of the tag gave, compared with the serialized manifest
Fetched(fetch) ==
    IF ~fetch.ok THEN "failed"
    ELSE IF fetch.content = "ours" THEN "equal" ELSE "differs"

UploadManifestFetch(m) ==
    /\ main.pc = "join_manifests"
    /\ mtask[m].pc = "get"
    /\ LET r == DestName(MTaskDest(m))
           tag == MTaskTag(m)
           stored == tags_stored[r][tag]
       IN \E cur \in (IF stored = "unknown" THEN {"none", "other", "ours"}
                      ELSE {stored}) :
          \E answered \in BOOLEAN :
            LET fetch == IF answered /\ cur # "none"
                         THEN [ok |-> TRUE, content |-> cur]
                         ELSE [ok |-> FALSE, content |-> "none"]
            IN /\ tags_stored' = [tags_stored EXCEPT ![r][tag] = cur]
               /\ mtask' = [mtask EXCEPT ![m] =
                    IF upload_manifest_skip(fetch)
                    THEN [@ EXCEPT !.gets = @ + 1, !.pc = "done",
                                   !.fetched = Fetched(fetch),
                                   !.result = "ok", !.location = FALSE]
                    ELSE [@ EXCEPT !.gets = @ + 1, !.pc = "put",
                                   !.fetched = Fetched(fetch)]]
    /\ UNCHANGED <<local_digests, source_registry, reg,
                   dirs, files, task, main, httpVars, restVars>>

PutManifestResponses ==
    {[status |-> 201, location |-> TRUE],
     [status |-> 201, location |-> FALSE],
     [status |-> 500, location |-> FALSE]}

\* upload_manifest: the PUT of the tag
UploadManifestPut(m) ==
    /\ main.pc = "join_manifests"
    /\ mtask[m].pc = "put"
    /\ LET r == DestName(MTaskDest(m))
           tag == MTaskTag(m)
       IN \E resp \in PutManifestResponses :
            /\ tags_stored' = IF resp.status = 201
                              THEN [tags_stored EXCEPT ![r][tag] = "ours"]
                              ELSE tags_stored
            /\ mtask' = [mtask EXCEPT ![m] =
                 IF resp.status = 201 /\ resp.location
                 THEN [@ EXCEPT !.puts = @ + 1, !.pc = "done",
                                !.put_now = TRUE,
                                !.result = "ok", !.location = TRUE]
                 ELSE [@ EXCEPT !.puts = @ + 1, !.pc = "done",
                                !.put_now = TRUE, !.result = "err"]]
    /\ UNCHANGED <<local_digests, source_registry, reg,
                   dirs, files, task, main, httpVars, restVars>>

JoinManifestTask ==
    /\ main.pc = "join_manifests"
    /\ mtask[main.idx].result # "none"
    /\ main' = IF mtask[main.idx].result = "err"
               THEN [main EXCEPT !.pc = "done", !.result = "err"]
               ELSE IF main.idx < NumDests * NumTags
               THEN [main EXCEPT !.idx = @ + 1]
               ELSE [main EXCEPT !.pc = "done", !.result = "ok"]
    /\ UNCHANGED <<local_digests, source_registry, reg,
                   tags_stored, dirs, files, task, mtask, httpVars, restVars>>

(***************************************************************************)
(* Initial states of a pusher run                                          *)
(***************************************************************************)
\* directories that may be there before the run
CacheDirsBefore ==
    {{}} \cup {Prefixes(p) : p \in {opt_cache_path,
                                    Join(opt_cache_path, "tmp"),
                                    Join(Join(opt_cache_path, "tmp"), "tmp")}}

NoAuthInfo == [some |-> FALSE, token |-> 0]

HttpIdle ==
    /\ auth_info = NoAuthInfo
    /\ tokens_issued = 0
    /\ req = <<>>

IoIdle == io = [waiting |-> 0, in_flight |-> 0, done |-> 0]

MergeIdle == dl = <<>> /\ mg = <<>>

PureIdle ==
    sd = <<>> /\ mm = <<>> /\ ah = <<>> /\ tg = <<>> /\ db = <<>> /\ call = <<>>

RestIdle == IoIdle /\ MergeIdle /\ PureIdle

\* A cache file is what an earlier run left: that run downloaded the blob,
\* so it had a source registry, no local file for the digest, and the
\* directory of its temporary file.
Init ==
    /\ \E have \in SUBSET {b.digest : b \in LayerBlobs} :
         local_digests = [d \in have |-> LocalPath(d)]
    /\ source_registry \in {"none", SourceName}
    /\ reg = [r \in Registries |-> {}]
    /\ tags_stored = [r \in Registries |-> [tag \in Tags |-> "unknown"]]
    /\ dirs \in CacheDirsBefore
    /\ \E cached \in SUBSET {b \in LayerBlobs :
                                /\ source_registry # "none"
                                /\ b.digest \notin DOMAIN local_digests
                                /\ ensure_tmp_cache_path(cache_path) \in dirs} :
         files = [p \in {LocalPath(d) : d \in DOMAIN local_digests}
                        \cup {TmpConfigPath}
                        \cup {expected_path(cache_path, b.digest) :
                                 b \in cached} |->
                    IF p = TmpConfigPath THEN ContentOf(manifest.config)
                    ELSE ContentOf(CHOOSE b \in LayerBlobs :
                                      b.digest = p[Len(p)])]
    /\ task = [t \in TaskIds |-> TaskInit]
    /\ mtask = [m \in MTaskIds |-> MTaskInit]
    /\ main = [pc |-> "setup", idx |-> 0, result |-> "none",
               actions |-> ActionsTakenDefault]
    /\ HttpIdle
    /\ RestIdle

Next ==
    \/ SpawnBlobTasks
    \/ \E t \in TaskIds : DestinationPresent(t)
    \/ \E t \in TaskIds : SourcePresent(t)
    \/ \E t \in TaskIds : TryCopyFrom(t)
    \/ \E t \in TaskIds : DestinationPresentPostCopy(t)
    \/ \E t \in TaskIds : SourcePresentForDownload(t)
    \/ \E t \in TaskIds : DownloadBlob(t)
    \/ \E t \in TaskIds : UploadBlob(t)
    \/ \E t \in TaskIds : ConfigBlobExists(t)
    \/ JoinBlobTask
    \/ \E m \in MTaskIds : UploadManifestFetch(m)
    \/ \E m \in MTaskIds : UploadManifestPut(m)
    \/ JoinManifestTask

Spec == Init /\ [][Next]_vars

(***************************************************************************)
(* Properties of ensure_present and of the pusher, checked under Spec      *)
(***************************************************************************)

C2_AlreadyPresent ==
    \A t \in TaskIds :
        IsLayerTask(t) /\ task[t].first = "true"
            => /\ task[t].pc = "done"
               /\ task[t].result = "ok"
               /\ task[t].actions =
                    [ActionsTakenDefault EXCEPT
                        !.already_present = 1,
                        !.already_present_size = TaskBlob(t).size]
               /\ task[t].calls = [NoCalls EXCEPT !.dest_exists = 1]

\* the first check of a layer answered true although the layer is local and
\* a source registry is configured
C2_Witness ==
    \E t \in TaskIds :
        /\ IsLayerTask(t)
        /\ task[t].first = "true"
        /\ task[t].result = "ok"
        /\ TaskBlob(t).digest \in DOMAIN local_digests
        /\ source_registry # "none"

\* C3: when the destination lacked d, the source has d and the destination
\* check made after try_copy_from answers true, ensure_present returns
\* copied_from_source_repository = 1 with every other count 0 and has called
\* neither upload_blob nor download_blob, local file or not.
C3_CopiedFromSource ==
    \A t \in TaskIds :
        (/\ IsLayerTask(t)
         /\ task[t].first = "false"
         /\ task[t].src1 = "true"
         /\ task[t].post = "true")
            => /\ task[t].pc = "done"
               /\ task[t].result = "ok"
               /\ task[t].actions =
                    [ActionsTakenDefault EXCEPT
                        !.copied_from_source_repository = 1,
                        !.copied_from_source_repository_size =
                            TaskBlob(t).size]
               /\ task[t].calls.upload = 0
               /\ task[t].calls.put = 0
               /\ task[t].calls.download = 0

\* the check after the copy answered true for a layer that is also local
C3_Witness ==
    \E t \in TaskIds :
        /\ IsLayerTask(t)
        /\ task[t].first = "false"
        /\ task[t].src1 = "true"
        /\ task[t].calls.try_copy = 1
        /\ task[t].post = "true"
        /\ task[t].result = "ok"
        /\ TaskBlob(t).digest \in DOMAIN local_digests

\* C4: when the mount POST of try_copy_from is answered with anything but
\* 201 (an error for 202 and the like, Ok(false) for 404), ensure_present
\* does not return that: it re-checks the destination and, with the blob
\* still absent, goes on to the upload of the local file or, without one,
\* to the second source check and the download.
C4_MountErrorNotFatal ==
    \A t \in TaskIds :
        IsLayerTask(t) /\ task[t].mount \in {"err", "ok_false"}
            => /\ task[t].error # "TryCopy"
               /\ \/ task[t].pc = "post_check" /\ task[t].calls.dest_exists = 1
                  \/ task[t].post # "none" /\ task[t].calls.dest_exists = 2
               /\ task[t].post = "err"
                    => task[t].result = "err" /\ task[t].error = "BlobExists"
               /\ task[t].post = "false"
                    => IF TaskBlob(t).digest \in DOMAIN local_digests
                       THEN /\ task[t].via = "local"
                            /\ task[t].pc \in {"upload", "done"}
                            /\ task[t].src2 = "none"
                       ELSE /\ task[t].pc \in {"src_check2", "download",
                                               "upload", "done"}
                            /\ task[t].pc # "src_check2"
                                 => task[t].src2 # "none"

\* after a failed mount the blob went to the destination through the
\* download from the source
C4_Witness ==
    \E t \in TaskIds :
        /\ IsLayerTask(t)
        /\ task[t].mount = "err"
        /\ task[t].post = "false"
        /\ task[t].via = "source"
        /\ task[t].downloaded
        /\ task[t].result = "ok"

\* C5: with the destination lacking d, no local file for d and the source
\* holding d: without a cache file ensure_present downloads once into a
\* temporary file, renames it to the cache file, uploads the cache file and
\* returns downloaded_from_source_repository = 1 and
\* uploaded_data_from_source_repository = 1; with a cache file it downloads
\* nothing and returns downloaded_from_source_repository = 0 and
\* uploaded_data_from_source_repository = 1.
C5_SourceDownloadPath ==
    \A t \in TaskIds :
        (/\ IsLayerTask(t)
         /\ task[t].first = "false"
         /\ TaskBlob(t).digest \notin DOMAIN local_digests
         /\ task[t].src2 = "true")
            => LET blob == TaskBlob(t)
                   expected == expected_path(cache_path, blob.digest)
               IN /\ task[t].cache_seen \in {"exists", "absent"}
                  /\ task[t].calls.download <= 1
                  /\ task[t].cache_seen = "exists"
                       => /\ task[t].calls.download = 0
                          /\ task[t].pc \in {"upload", "done"}
                          /\ task[t].upath = expected
                          /\ task[t].result = "ok"
                               => /\ task[t].calls.upload = 1
                                  /\ task[t].actions =
                                       [ActionsTakenDefault EXCEPT
                                         !.uploaded_data_from_source_repository = 1,
                                         !.uploaded_data_from_source_repository_size =
                                             blob.size]
                  /\ task[t].cache_seen = "absent"
                       => /\ task[t].pc = "download" /\ MainRunning
                               => /\ task[t].calls.download = 0
                                  /\ task[t].tmp \in DOMAIN files
                                  /\ task[t].tmp # expected
                          /\ task[t].pc = "upload"
                               => /\ task[t].calls.download = 1
                                  /\ task[t].tmp \notin DOMAIN files
                                  /\ task[t].upath = expected
                                  /\ expected \in DOMAIN files
                                  /\ files[expected] = ContentOf(blob)
                          /\ task[t].result = "ok"
                               => /\ task[t].calls.download = 1
                                  /\ task[t].calls.upload = 1
                                  /\ task[t].upath = expected
                                  /\ task[t].actions =
                                       [ActionsTakenDefault EXCEPT
                                         !.downloaded_from_source_repository = 1,
                                         !.downloaded_from_source_repository_size =
                                             blob.size,
                                         !.uploaded_data_from_source_repository = 1,
                                         !.uploaded_data_from_source_repository_size =
                                             blob.size]

\* a layer was downloaded into the cache and uploaded from it
C5_Witness ==
    \E t \in TaskIds :
        /\ IsLayerTask(t)
        /\ task[t].cache_seen = "absent"
        /\ task[t].calls.download = 1
        /\ task[t].calls.put = 1
        /\ task[t].result = "ok"
        /\ expected_path(cache_path, TaskBlob(t).digest) \in DOMAIN files

\* C6: with the destination lacking d, no local file for d, and no source
\* registry or a source registry that lacks d, ensure_present returns the
\* error of the exhausted sources and has made no upload_blob and no
\* download_blob.
C6_BlobUnavailable ==
    \A t \in TaskIds :
        (/\ IsLayerTask(t)
         /\ task[t].first = "false"
         /\ TaskBlob(t).digest \notin DOMAIN local_digests
         /\ source_registry = "none" \/ task[t].src2 = "false")
            => /\ task[t].pc = "done"
               /\ task[t].result = "err"
               /\ task[t].error = "BlobUnavailable"
               /\ task[t].calls.upload = 0
               /\ task[t].calls.put = 0
               /\ task[t].calls.download = 0

\* the configured source registry answered that it lacks the layer
C6_Witness ==
    \E t \in TaskIds :
        /\ IsLayerTask(t)
        /\ task[t].first = "false"
        /\ source_registry # "none"
        /\ task[t].src2 = "false"
        /\ task[t].error = "BlobUnavailable"

C15_ConfigWithLayers ==
    \A t \in TaskIds :
        ~IsLayerTask(t)
            => /\ \A u \in TaskIds :
                    TaskDest(u) = TaskDest(t)
                       => /\ (task[u].pc = "unspawned"
                                <=> task[t].pc = "unspawned")
                          /\ task[t].calls.dest_exists >= 1
                                => task[u].pc # "unspawned"
               /\ (\E m \in MTaskIds : mtask[m].pc # "unspawned")
                    => task[t].result = "ok"

\* the config blob HEAD was answered while a layer task of the destination
\* had not yet returned
C15_Witness ==
    \E t, u \in TaskIds :
        /\ ~IsLayerTask(t) /\ IsLayerTask(u) /\ TaskDest(u) = TaskDest(t)
        /\ task[t].calls.dest_exists >= 1
        /\ task[u].pc \notin {"unspawned", "done"}

\* the ordering of C15 as first stated: the config blob is ensured only after
\* all layer tasks of the destination have completed, so no config-blob
\* request has been sent while a layer task is still running.
C15_ConfigAfterLayers ==
    \A t \in TaskIds :
        ~IsLayerTask(t) /\ task[t].calls.dest_exists >= 1
            => \A u \in TaskIds :
                 IsLayerTask(u) /\ TaskDest(u) = TaskDest(t)
                    => task[u].pc = "done"

(***************************************************************************)
(* HttpCli::request (src/registry/http/http_cli/mod.rs) and                *)
(* run_single_request (private_impl.rs)                                    *)
(***************************************************************************)
HttpReqs == {1}
Max(a, b) == IF a >= b THEN a ELSE b

StartUri == [host |-> "registry", path |-> "/v2/repo/blobs/d"]
NoLocation == [present |-> FALSE, parses |-> FALSE, host |-> "", path |-> ""]
Locations ==
    {[present |-> TRUE, parses |-> TRUE, host |-> "s3", path |-> "/signed"],
     [present |-> TRUE, parses |-> TRUE, host |-> "", path |-> "/moved"],
     [present |-> TRUE, parses |-> FALSE, host |-> "", path |-> ""]}

\* what the server, or the connection to it, can answer to one attempt
RawResponses ==
    {[kind |-> k, status |-> 0, www_authenticate |-> "none",
      location |-> NoLocation] : k \in {"connect_error", "hyper_error"}}
    \cup {[kind |-> "response", status |-> st, www_authenticate |-> "none",
           location |-> NoLocation] : st \in {200, 401, 307, 500}}
    \cup {[kind |-> "response", status |-> 401, www_authenticate |-> w,
           location |-> NoLocation] : w \in {"bearer", "malformed"}}
    \cup {[kind |-> "response", status |-> 307, www_authenticate |-> "none",
           location |-> l] : l \in Locations}

\* run_single_request: the classification of the answer
run_single_request(raw) ==
    IF raw.kind = "connect_error" THEN "ConnectError"
    ELSE IF raw.kind = "hyper_error" THEN "HyperError"
    ELSE IF raw.status = 401 /\ raw.www_authenticate # "none"
         THEN IF raw.www_authenticate = "bearer" THEN "AuthFailure"
              ELSE "AnyhowError"
    ELSE IF raw.status >= 300 /\ raw.status < 400 /\ raw.location.present
         THEN "Redirection"
    ELSE "Ok"

\* the rebased uri of a Redirection
RebaseUri(uri, location) ==
    IF location.host # "" THEN [host |-> location.host, path |-> location.path]
    ELSE [host |-> uri.host, path |-> location.path]

auth_retries(rq) == Max(rq.retries, 3)

\* `if attempt > retries || auth_attempt > auth_retries { break err; }`
BudgetExhausted(rq) ==
    rq.attempt > rq.retries \/ rq.auth_attempt > auth_retries(rq)

ReqInit(retries) ==
    [pc |-> "dispatch", retries |-> retries, uri |-> StartUri,
     attempt |-> 0, auth_attempt |-> 0,
     attempt_at_dispatch |-> 0, sent_token |-> 0, last |-> "none",
     status |-> 0,
     dispatched |-> 0, token_flows |-> 0, seen |-> {}, result |-> "none"]

Finish(rq, result) == [rq EXCEPT !.pc = "done", !.result = result]

\* the arm of `match err` taken for an error that did not end the loop;
\* attempt has been incremented
AfterError(rq, err, raw) ==
    LET counted == [rq EXCEPT !.attempt = @ + 1]
    IN IF err = "Redirection"
       THEN IF raw.location.parses
            THEN [counted EXCEPT !.uri = RebaseUri(@, raw.location),
                                 !.pc = "dispatch"]
            ELSE Finish(counted, "AnyhowError")
       ELSE IF err \in {"ConnectError", "ServerError"}
            THEN [counted EXCEPT !.pc = "dispatch"]
       ELSE IF err = "AuthFailure"
            THEN [counted EXCEPT !.pc = "auth", !.token_flows = @ + 1]
       ELSE Finish(counted, err)

\* the answer of one attempt has arrived
AfterAttempt(rq, raw) ==
    LET err == run_single_request(raw)
        got == [rq EXCEPT !.last = err, !.status = raw.status,
                          !.seen = @ \cup {err}]
    IN IF err = "Ok" THEN Finish(got, "Ok")
       ELSE IF BudgetExhausted(got) THEN Finish(got, err)
       ELSE AfterError(got, err, raw)

\* the AuthFailure arm without `attempt -= 1`
AfterTokenAcquiredNoDecrement(rq) ==
    [rq EXCEPT !.auth_attempt = @ + 1, !.pc = "dispatch"]

\* the AuthFailure arm without `auth_attempt += 1`
AfterTokenAcquiredUncounted(rq) ==
    [rq EXCEPT !.attempt = @ - 1, !.pc = "dispatch"]

\* the AuthFailure arm after authenticate_request returned Ok
AfterTokenAcquired(rq) ==
    [rq EXCEPT !.attempt = @ - 1, !.auth_attempt = @ + 1, !.pc = "dispatch"]

\* run_single_request up to the dispatch: the token is read from the slot
Dispatch(r) ==
    /\ r \in DOMAIN req
    /\ req[r].pc = "dispatch"
    /\ req' = [req EXCEPT ![r] =
                 [@ EXCEPT !.pc = "wait", !.dispatched = @ + 1,
                           !.attempt_at_dispatch = req[r].attempt,
                           !.sent_token = auth_info.token]]
    /\ UNCHANGED <<auth_info, tokens_issued, pusherVars, restVars>>

\* the answer arrives and the loop body runs up to its next await
Respond(r) ==
    /\ r \in DOMAIN req
    /\ req[r].pc = "wait"
    /\ \E raw \in RawResponses :
         /\ req' = [req EXCEPT ![r] = AfterAttempt(@, raw)]
         /\ auth_info' = IF req'[r].last = "Redirection"
                            /\ req'[r].pc = "dispatch"
                         THEN NoAuthInfo
                         ELSE auth_info
    /\ UNCHANGED <<tokens_issued, pusherVars, restVars>>

\* the error of authenticate_request taken as one more failed attempt
AfterTokenErrorRetried(rq) == [rq EXCEPT !.pc = "dispatch"]

\* `authenticate_request(..).await?`: the error leaves request at once
AfterTokenError(rq) == Finish(rq, "AnyhowError")

\* authenticate_request returns: a token, an AuthResponse without a token,
\* or an error, which ends the request
TokenFlow(r) ==
    /\ r \in DOMAIN req
    /\ req[r].pc = "auth"
    /\ \E outcome \in {"token", "no_token", "error"} :
         IF outcome = "error"
         THEN /\ req' = [req EXCEPT ![r] = AfterTokenError(@)]
              /\ UNCHANGED <<auth_info, tokens_issued>>
         ELSE /\ req' = [req EXCEPT ![r] = AfterTokenAcquired(@)]
              /\ tokens_issued' = IF outcome = "token"
                                  THEN tokens_issued + 1
                                  ELSE tokens_issued
              /\ auth_info' = [some |-> TRUE,
                               token |-> IF outcome = "token"
                                         THEN tokens_issued + 1 ELSE 0]
    /\ UNCHANGED <<pusherVars, restVars>>

PusherIdle ==
    /\ local_digests = <<>>
    /\ source_registry = "none"
    /\ reg = [r \in Registries |-> {}]
    /\ tags_stored = [r \in Registries |-> [tag \in Tags |-> "unknown"]]
    /\ dirs = {}
    /\ files = <<>>
    /\ task = [t \in TaskIds |-> TaskInit]
    /\ mtask = [m \in MTaskIds |-> MTaskInit]
    /\ main = [pc |-> "idle", idx |-> 0, result |-> "none",
               actions |-> ActionsTakenDefault]

InitHttp ==
    /\ PusherIdle
    /\ RestIdle
    /\ auth_info \in {NoAuthInfo, [some |-> TRUE, token |-> 1]}
    /\ tokens_issued = auth_info.token
    /\ req \in [HttpReqs -> {ReqInit(n) : n \in 0..MaxRetries}]

NextHttp ==
    \/ \E r \in HttpReqs : Dispatch(r)
    \/ \E r \in HttpReqs : Respond(r)
    \/ \E r \in HttpReqs : TokenFlow(r)

SpecHttp == InitHttp /\ [][NextHttp]_vars

(***************************************************************************)
(* Properties of HttpCli::request, checked under SpecHttp                  *)
(***************************************************************************)

\* C8: when every attempt of a request with retries = R fails with
\* ConnectError, the client dispatches exactly R + 1 requests and returns
\* the ConnectError of the last attempt.
C8_ConnectErrorDispatches ==
    \A r \in DOMAIN req :
        req[r].pc = "done" /\ req[r].seen = {"ConnectError"}
            => /\ req[r].dispatched = req[r].retries + 1
               /\ req[r].result = "ConnectError"

\* C9: within one request the token flow runs at most max(retries, 3)
\* times, and a request whose every attempt is answered 401 with a Bearer
\* challenge ends with AuthFailure after that many token flows.
C9_TokenFlowsCapped ==
    \A r \in DOMAIN req :
        /\ req[r].token_flows <= Max(req[r].retries, 3)
        /\ (/\ req[r].pc = "done"
            /\ req[r].seen = {"AuthFailure"}
            /\ req[r].result = "AuthFailure")
              => req[r].token_flows = Max(req[r].retries, 3)

\* C10: an AuthFailure followed by a token does not consume the retry
\* budget: attempt, incremented before the token flow, is back at the value
\* it had when the failed attempt was dispatched once the flow has returned,
\* and it is never below 0.
C10_AuthKeepsRetryBudget ==
    \A r \in DOMAIN req :
        /\ req[r].attempt >= 0
        /\ req[r].pc = "auth"
             => req[r].attempt = req[r].attempt_at_dispatch + 1
        /\ req[r].pc = "dispatch" /\ req[r].last = "AuthFailure"
             => /\ req[r].attempt = req[r].attempt_at_dispatch
                /\ req[r].retries - req[r].attempt
                     = req[r].retries - req[r].attempt_at_dispatch

\* a token was acquired after a retried ConnectError: the budget used so far
\* is the one retry
C10_Witness ==
    \E r \in DOMAIN req :
        /\ req[r].pc = "dispatch"
        /\ req[r].last = "AuthFailure"
        /\ req[r].seen = {"ConnectError", "AuthFailure"}
        /\ req[r].auth_attempt = 1
        /\ req[r].attempt = 1
        /\ req[r].dispatched = 2

(***************************************************************************)
(* Two requests in progress on one HttpCli: they share auth_info.  The     *)
(* manifest tasks of one destination are such requests: each upload of a   *)
(* tag PUTs through the HttpCli of the registry.                           *)
(***************************************************************************)
\* upload_manifest: the retries of its PUT
upload_manifest_retries == 0

SharedReqs == {1, 2}

InitShared ==
    /\ PusherIdle
    /\ RestIdle
    /\ auth_info \in {NoAuthInfo, [some |-> TRUE, token |-> 1]}
    /\ tokens_issued = auth_info.token
    /\ req = [r \in SharedReqs |-> ReqInit(upload_manifest_retries)]

NextShared ==
    \/ \E r \in SharedReqs : Dispatch(r)
    \/ \E r \in SharedReqs : Respond(r)
    \/ \E r \in SharedReqs : TokenFlow(r)

SpecHttpShared == InitShared /\ [][NextShared]_vars

\* C11: the attempt dispatched right after a Redirection outcome goes to
\* the rebased URL and carries no Authorization: Bearer header, whatever
\* the other requests on the same HttpCli do in between.
C11_RedirectedAttemptWithoutToken ==
    \A r \in DOMAIN req :
        req[r].pc = "wait" /\ req[r].last = "Redirection"
            => /\ req[r].uri.path \in {l.path : l \in Locations}
               /\ req[r].uri.host # ""
               /\ req[r].sent_token = 0

\* C12: when two requests on the same HttpCli are each answered 401 with a
\* Bearer challenge for the same missing or rejected token, one token
\* acquisition is executed for it, not one per request: no two requests are
\* in or past authenticate_request for the same rejected token, and a
\* request retrying after the challenge sends the token that was stored.
C12_OneTokenAcquisition ==
    \A r1 \in DOMAIN req : \A r2 \in DOMAIN req :
        (/\ r1 # r2
         /\ req[r1].last = "AuthFailure"
         /\ req[r2].last = "AuthFailure"
         /\ req[r1].sent_token = req[r2].sent_token)
            => /\ ~(/\ req[r1].pc \in {"auth", "dispatch"}
                    /\ req[r2].pc \in {"auth", "dispatch"})
               /\ req[r1].token_flows + req[r2].token_flows <= 1

\* C13: a response with a 5xx status is classified as ServerError and
\* retried, counting against retries; it is not handed to the caller as a
\* successful response while retries remain.
C13_ServerErrorRetried ==
    \A r \in DOMAIN req :
        req[r].status >= 500 /\ req[r].status < 600
            => /\ req[r].last = "ServerError"
               /\ req[r].attempt <= req[r].retries => req[r].result # "Ok"

(***************************************************************************)
(* The blob transfers of a pusher run over a manifest of many layers, all  *)
(* of them local and none at the destination: every ensure_present task    *)
(* reaches its upload_blob.  The tasks are alike, so they are counted.      *)
(***************************************************************************)
\* main: Semaphore::new(32), handed to the tasks
concurrent_io_operations == 32

\* ensure_present reaches `upload_blob(local_layer_path, ..)`: the call is
\* made as it is reached, ensure_present acquires nothing before it
StartTransfer ==
    /\ io.waiting > 0
    /\ io' = [io EXCEPT !.waiting = @ - 1, !.in_flight = @ + 1]
    /\ UNCHANGED <<pusherVars, httpVars, mergeVars, pureVars>>

\* upload_blob returns
FinishTransfer ==
    /\ io.in_flight > 0
    /\ io' = [io EXCEPT !.in_flight = @ - 1, !.done = @ + 1]
    /\ UNCHANGED <<pusherVars, httpVars, mergeVars, pureVars>>

InitIo ==
    /\ PusherIdle
    /\ HttpIdle
    /\ io = [waiting |-> ManyLayers, in_flight |-> 0, done |-> 0]
    /\ MergeIdle
    /\ PureIdle

NextIo ==
    \/ StartTransfer
    \/ FinishTransfer

SpecIo == InitIo /\ [][NextIo]_vars

\* C14: at every moment of a pusher run at most 32 upload_blob and
\* download_blob operations are in flight over all ensure_present tasks.
C14_TransfersWithinPermits ==
    io.in_flight <= concurrent_io_operations

(***************************************************************************)
(* upload_manifest called twice in succession for the same tag of the same *)
(* repository (registry/http/mod.rs), as two runs of the pusher do.  The   *)
(* runs start after every blob was found at every destination.             *)
(***************************************************************************)
AllDigests == {b.digest : b \in LayerBlobs} \cup {manifest.config.digest}

BlobsPresent(t) ==
    LET spawned == [TaskInit EXCEPT !.pc = IF IsLayerTask(t)
                                           THEN "dest_check"
                                           ELSE "cfg_exists"]
    IN IF IsLayerTask(t)
       THEN ReturnOk([Called(spawned, "dest_exists") EXCEPT !.first = "true"],
                     already_present(TaskBlob(t)))
       ELSE AfterConfigExists(Called(spawned, "dest_exists"), "true")

\* the next call of upload_manifest for the tag, after the one that returned
UploadManifestAgain(m) ==
    /\ main.pc = "join_manifests"
    /\ mtask[m].pc = "done"
    /\ mtask[m].call = 1
    /\ mtask' = [mtask EXCEPT ![m] =
                   [@ EXCEPT !.pc = "get", !.call = @ + 1,
                             !.prev = mtask[m].result,
                             !.result = "none", !.location = FALSE,
                             !.fetched = "none", !.put_now = FALSE]]
    /\ UNCHANGED <<local_digests, source_registry, reg, tags_stored,
                   dirs, files, task, main, httpVars, restVars>>

InitManifest ==
    /\ \E have \in SUBSET {b.digest : b \in LayerBlobs} :
         /\ local_digests = [d \in have |-> LocalPath(d)]
         /\ files = [p \in {LocalPath(d) : d \in have} \cup {TmpConfigPath} |->
                       IF p = TmpConfigPath THEN ContentOf(manifest.config)
                       ELSE ContentOf(CHOOSE b \in LayerBlobs :
                                         b.digest = p[Len(p)])]
    /\ source_registry \in {"none", SourceName}
    /\ reg = [r \in Registries |->
                IF r = SourceName THEN {} ELSE AllDigests]
    /\ tags_stored = [r \in Registries |-> [tag \in Tags |-> "unknown"]]
    /\ \E before \in CacheDirsBefore :
         dirs = before \cup Prefixes(tmp_cache_path)
    /\ task = [t \in TaskIds |-> BlobsPresent(t)]
    /\ mtask = [m \in MTaskIds |-> [MTaskInit EXCEPT !.pc = "get"]]
    /\ main = [pc |-> "join_manifests", idx |-> 1, result |-> "none",
               actions |-> ActionsTakenDefault]
    /\ HttpIdle
    /\ RestIdle

NextManifest ==
    \/ \E m \in MTaskIds : UploadManifestFetch(m)
    \/ \E m \in MTaskIds : UploadManifestPut(m)
    \/ \E m \in MTaskIds : UploadManifestAgain(m)

SpecManifest == InitManifest /\ [][NextManifest]_vars

\* C16: upload_manifest sends the PUT exactly when its GET of the tag failed
\* or returned bytes other than the serialized manifest; when the bytes are
\* equal it sends no PUT and returns Ok(None).  So a call that follows a
\* successful call and whose GET is answered sends no PUT and returns None,
\* and the two calls together have sent at most one PUT.
C16_IdempotentManifestUpload ==
    \A m \in MTaskIds :
        LET k == mtask[m]
        IN /\ k.pc = "put" => k.fetched \in {"failed", "differs"} /\ ~k.put_now
           /\ k.pc = "done"
                => /\ k.put_now <=> k.fetched \in {"failed", "differs"}
                   /\ k.fetched = "equal"
                        => k.result = "ok" /\ ~k.location
           /\ k.call = 2 /\ k.prev = "ok" /\ k.fetched \in {"equal", "differs"}
                => /\ k.fetched = "equal"
                   /\ k.pc = "done" /\ ~k.put_now /\ ~k.location
                   /\ k.result = "ok"
                   /\ k.puts <= 1

\* the first call stored the manifest with a PUT and the second found it
C16_Witness ==
    \E m \in MTaskIds :
        /\ mtask[m].call = 2 /\ mtask[m].prev = "ok"
        /\ mtask[m].pc = "done" /\ mtask[m].fetched = "equal"
        /\ mtask[m].puts = 1 /\ mtask[m].gets = 2


(***************************************************************************)
(* ConfigDelta, ExecutionConfig and RootFs (container_specs/config.rs).    *)
(* An Option is a sequence of length 0 (None) or 1 (Some), a Vec is a      *)
(* sequence, a HashMap is a function.                                      *)
(***************************************************************************)
None == <<>>
Some(x) == <<x>>

\* `if let Some(e) = &other.f { self.f = Some(e.clone()) }`
Replace(ours, theirs) == IF theirs # None THEN theirs ELSE ours

\* `our_e.extend_from_slice(e)`, or `self.f = Some(e.clone())`
ExtendFromSlice(ours, theirs) ==
    IF theirs = None THEN ours
    ELSE IF ours = None THEN theirs
    ELSE Some(ours[1] \o theirs[1])

\* `our_e.extend(e.clone())` of a HashMap, or `self.f = Some(e.clone())`
MapExtend(ours, theirs) ==
    IF theirs = None THEN ours
    ELSE IF ours = None THEN theirs
    ELSE Some(theirs[1] @@ ours[1])

\* ExecutionConfig::update_with that replaces env instead of extending it
ExecutionConfig_update_with_env_replaced(self, other) ==
    [user |-> Replace(self.user, other.user),
     exposed_ports |-> Replace(self.exposed_ports, other.exposed_ports),
     env |-> Replace(self.env, other.env),
     entrypoint |-> Replace(self.entrypoint, other.entrypoint),
     cmd |-> Replace(self.cmd, other.cmd),
     volumes |-> ExtendFromSlice(self.volumes, other.volumes),
     working_dir |-> Replace(self.working_dir, other.working_dir),
     labels |-> MapExtend(self.labels, other.labels),
     stop_signal |-> Replace(self.stop_signal, other.stop_signal),
     memory |-> Replace(self.memory, other.memory),
     memory_swap |-> Replace(self.memory_swap, other.memory_swap),
     cpu_shares |-> Replace(self.cpu_shares, other.cpu_shares),
     healthcheck |-> Replace(self.healthcheck, other.healthcheck)]

ExecutionConfig_update_with(self, other) ==
    [user |-> Replace(self.user, other.user),
     exposed_ports |-> Replace(self.exposed_ports, other.exposed_ports),
     env |-> ExtendFromSlice(self.env, other.env),
     entrypoint |-> Replace(self.entrypoint, other.entrypoint),
     cmd |-> Replace(self.cmd, other.cmd),
     volumes |-> ExtendFromSlice(self.volumes, other.volumes),
     working_dir |-> Replace(self.working_dir, other.working_dir),
     labels |-> MapExtend(self.labels, other.labels),
     stop_signal |-> Replace(self.stop_signal, other.stop_signal),
     memory |-> Replace(self.memory, other.memory),
     memory_swap |-> Replace(self.memory_swap, other.memory_swap),
     cpu_shares |-> Replace(self.cpu_shares, other.cpu_shares),
     healthcheck |-> Replace(self.healthcheck, other.healthcheck)]

RootFs_default == [fs_type |-> None, diff_ids |-> None]

RootFs_update_with(self, other) ==
    [fs_type |-> Replace(self.fs_type, other.fs_type),
     diff_ids |-> Replace(self.diff_ids, other.diff_ids)]

ConfigDelta_default ==
    [created |-> None, author |-> None, architecture |-> None, os |-> None,
     os_version |-> None, os_features |-> None, variant |-> None,
     config |-> None, rootfs |-> None, history |-> None]

ConfigDelta_update_with(self, other) ==
    [created |-> Replace(self.created, other.created),
     author |-> Replace(self.author, other.author),
     architecture |-> Replace(self.architecture, other.architecture),
     os |-> Replace(self.os, other.os),
     os_version |-> Replace(self.os_version, other.os_version),
     os_features |-> Replace(self.os_features, other.os_features),
     variant |-> Replace(self.variant, other.variant),
     config |-> IF other.config = None THEN self.config
                ELSE IF self.config = None THEN other.config
                ELSE Some(ExecutionConfig_update_with(self.config[1],
                                                      other.config[1])),
     rootfs |-> IF other.rootfs = None THEN self.rootfs
                ELSE IF self.rootfs = None THEN other.rootfs
                ELSE Some(RootFs_update_with(self.rootfs[1],
                                             other.rootfs[1])),
     history |-> ExtendFromSlice(self.history, other.history)]

(***************************************************************************)
(* update_with applied to three deltas in both groupings, and to the       *)
(* default delta                                                           *)
(***************************************************************************)
NoExecutionConfig ==
    [user |-> None, exposed_ports |-> None, env |-> None,
     entrypoint |-> None, cmd |-> None, volumes |-> None,
     working_dir |-> None, labels |-> None, stop_signal |-> None,
     memory |-> None, memory_swap |-> None, cpu_shares |-> None,
     healthcheck |-> None]

Users == {None, Some("root"), Some("nobody")}
Envs == {None, Some(<<"A=1">>), Some(<<"B=2">>)}
LabelMaps == {None, Some("A" :> "x"), Some(("A" :> "z") @@ ("B" :> "y"))}
VolumeLists == {None, Some(<<"/data">>)}
Architectures == {None, Some("amd64"), Some("arm64")}
RootFsValues ==
    {None, Some([fs_type |-> Some("layers"), diff_ids |-> None]),
     Some([fs_type |-> None, diff_ids |-> Some(<<"sha256:base">>)]),
     Some([fs_type |-> None, diff_ids |-> Some(<<>>)])}
HistoryItem1 ==
    [created |-> Some("2024-01-01T00:00:00Z"), author |-> None,
     created_by |-> Some("bazel"), comment |-> None, empty_layer |-> None]
Histories == {None, Some(<<HistoryItem1>>)}

ExecutionConfigs ==
    {[NoExecutionConfig EXCEPT !.user = u, !.env = e] :
        u \in Users, e \in Envs}
    \cup {[NoExecutionConfig EXCEPT !.labels = l, !.volumes = v] :
             l \in LabelMaps, v \in VolumeLists}

ConfigDeltas ==
    {[ConfigDelta_default EXCEPT !.config = Some(ec)] :
        ec \in ExecutionConfigs}
    \cup {[ConfigDelta_default EXCEPT !.architecture = a, !.rootfs = r,
                                      !.history = h] :
             a \in Architectures, r \in RootFsValues, h \in Histories}

Unset == "unset"

UpdateAB ==
    /\ dl.pc = "ab"
    /\ dl' = [dl EXCEPT !.ab = ConfigDelta_update_with(dl.a, dl.b),
                        !.pc = "bc"]
    /\ UNCHANGED <<pusherVars, httpVars, ioVars, mg, pureVars>>

UpdateBC ==
    /\ dl.pc = "bc"
    /\ dl' = [dl EXCEPT !.bc = ConfigDelta_update_with(dl.b, dl.c),
                        !.pc = "left"]
    /\ UNCHANGED <<pusherVars, httpVars, ioVars, mg, pureVars>>

UpdateLeft ==
    /\ dl.pc = "left"
    /\ dl' = [dl EXCEPT !.left = ConfigDelta_update_with(dl.ab, dl.c),
                        !.pc = "right"]
    /\ UNCHANGED <<pusherVars, httpVars, ioVars, mg, pureVars>>

UpdateRight ==
    /\ dl.pc = "right"
    /\ dl' = [dl EXCEPT !.right = ConfigDelta_update_with(dl.a, dl.bc),
                        !.pc = "default"]
    /\ UNCHANGED <<pusherVars, httpVars, ioVars, mg, pureVars>>

UpdateWithDefault ==
    /\ dl.pc = "default"
    /\ dl' = [dl EXCEPT
                !.with_default =
                    ConfigDelta_update_with(dl.a, ConfigDelta_default),
                !.pc = "done"]
    /\ UNCHANGED <<pusherVars, httpVars, ioVars, mg, pureVars>>

InitDelta ==
    /\ PusherIdle
    /\ HttpIdle
    /\ IoIdle
    /\ mg = <<>>
    /\ PureIdle
    /\ \E a \in ConfigDeltas, b \in ConfigDeltas, c \in ConfigDeltas :
         dl = [a |-> a, b |-> b, c |-> c, ab |-> Unset, bc |-> Unset,
               left |-> Unset, right |-> Unset, with_default |-> Unset,
               pc |-> "ab"]

NextDelta ==
    \/ UpdateAB
    \/ UpdateBC
    \/ UpdateLeft
    \/ UpdateRight
    \/ UpdateWithDefault

SpecDelta == InitDelta /\ [][NextDelta]_vars

\* the last Some of a sequence of Options, None when there is none
RECURSIVE LastSome(_)
LastSome(opts) ==
    IF opts = <<>> THEN None
    ELSE IF opts[Len(opts)] # None THEN opts[Len(opts)]
    ELSE LastSome(SubSeq(opts, 1, Len(opts) - 1))

\* the Some lists of a sequence of Options concatenated in order
RECURSIVE ConcatSome(_)
ConcatSome(opts) ==
    IF opts = <<>> THEN None
    ELSE LET rest == ConcatSome(SubSeq(opts, 1, Len(opts) - 1))
             last == opts[Len(opts)]
         IN IF last = None THEN rest
            ELSE IF rest = None THEN last
            ELSE Some(rest[1] \o last[1])

Field(d, f) == IF d.config = None THEN None ELSE d.config[1][f]

\* the value of label k after the label maps of a sequence of Options
RECURSIVE LastLabel(_, _)
LastLabel(opts, k) ==
    IF opts = <<>> THEN None
    ELSE LET last == opts[Len(opts)]
         IN IF last # None /\ k \in DOMAIN last[1] THEN Some(last[1][k])
            ELSE LastLabel(SubSeq(opts, 1, Len(opts) - 1), k)

LabelKeys == {"A", "B"}

\* C20: ConfigDelta::update_with is associative, (a.b).c = a.(b.c) for all
\* deltas a, b, c; in the result env, volumes and history are the supplied
\* lists concatenated in order, each label has the value of the last delta
\* that sets it, each scalar field is the last Some value supplied; and
\* updating a with ConfigDelta::default() gives a.
C20_UpdateWithMonoid ==
    dl # <<>> /\ dl.pc = "done"
        => LET Of(f) == <<Field(dl.a, f), Field(dl.b, f), Field(dl.c, f)>>
               Top(f) == <<dl.a[f], dl.b[f], dl.c[f]>>
           IN /\ dl.left = dl.right
              /\ dl.with_default = dl.a
              /\ Field(dl.left, "env") = ConcatSome(Of("env"))
              /\ Field(dl.left, "volumes") = ConcatSome(Of("volumes"))
              /\ dl.left.history = ConcatSome(Top("history"))
              /\ Field(dl.left, "user") = LastSome(Of("user"))
              /\ dl.left.architecture = LastSome(Top("architecture"))
              /\ \A k \in LabelKeys :
                    LET l == Field(dl.left, "labels")
                    IN (IF l # None /\ k \in DOMAIN l[1]
                        THEN Some(l[1][k]) ELSE None)
                          = LastLabel(Of("labels"), k)

\* three deltas that each carry an env entry and the first two a user
C20_Witness ==
    /\ dl # <<>> /\ dl.pc = "done"
    /\ Field(dl.a, "env") = Some(<<"A=1">>)
    /\ Field(dl.b, "env") = Some(<<"B=2">>)
    /\ Field(dl.c, "env") = Some(<<"A=1">>)
    /\ Field(dl.a, "user") = Some("root")
    /\ Field(dl.b, "user") = Some("nobody")
    /\ Field(dl.c, "user") = None
    /\ Field(dl.left, "env") = Some(<<"A=1", "B=2", "A=1">>)
    /\ Field(dl.left, "user") = Some("nobody")


(***************************************************************************)
(* merge() (merge_outputs.rs): its arguments, the files it reads, the      *)
(* hashing tasks it spawns and its locals                                  *)
(***************************************************************************)
\* the layer files on disk and what a gzip decoder makes of them
LayerFiles ==
    ("a.tgz" :> [bytes |-> <<"1f", "8b", "a1">>,
                 decoded |-> <<"t", "a", "r", "A">>])
    @@ ("b.tgz" :> [bytes |-> <<"1f", "8b", "b1", "b2">>,
                    decoded |-> <<"t", "a", "r", "B", "B", "B">>])
MissingLayer == "gone.tgz"

relative_search_path == None
rel_as_path(rel) ==
    IF relative_search_path = None THEN rel
    ELSE relative_search_path[1] \o "/" \o rel

\* sha256 of a byte sequence, as a value that names what was hashed
Sha256(bytes) == [sha256_of |-> bytes]
\* Sha256Value::from_path: the file's bytes as they are, and their number
from_path(path) ==
    [sha |-> Sha256(LayerFiles[path].bytes),
     len |-> Len(LayerFiles[path].bytes)]
\* Sha256Value::from_path_uncompressed: the decoded stream and its length
from_path_uncompressed(path) ==
    [sha |-> Sha256(LayerFiles[path].decoded),
     len |-> Len(LayerFiles[path].decoded)]

\* format!("sha256:{}", v)
FormatSha256(v) == <<"sha256:", v>>

BlobReference_default ==
    [blob_reference_type |-> "Config", specification_type |-> "Oci",
     size |-> 0, digest |-> ""]
Manifest_default ==
    [schema_version |-> 0, name |-> None, specification_type |-> "Oci",
     config |-> BlobReference_default, layers |-> <<>>]

\* Manifest::add_layer that keeps only the layer it is given
Manifest_add_layer_alone(self, compressed_sha_v, compressed_size, blob_reference_type) ==
    [self EXCEPT !.layers =
        <<[blob_reference_type |-> blob_reference_type,
           specification_type |-> self.specification_type,
           size |-> compressed_size,
           digest |-> FormatSha256(compressed_sha_v)]>>]

Manifest_add_layer(self, compressed_sha_v, compressed_size, blob_reference_type) ==
    [self EXCEPT !.layers =
        Append(@, [blob_reference_type |-> blob_reference_type,
                   specification_type |-> self.specification_type,
                   size |-> compressed_size,
                   digest |-> FormatSha256(compressed_sha_v)])]

RootFs_add_layer(self, uncompressed_sha_v) ==
    LET ids == IF self.diff_ids = None THEN <<>> ELSE self.diff_ids[1]
    IN [self EXCEPT
          !.diff_ids = Some(Append(ids, FormatSha256(uncompressed_sha_v)))]

ConfigDelta_add_layer(self, uncompressed_sha_v) ==
    LET root_fs == IF self.rootfs = None THEN RootFs_default
                   ELSE self.rootfs[1]
    IN [self EXCEPT
          !.rootfs = Some(RootFs_add_layer(root_fs, uncompressed_sha_v))]

\* the files remote_metadata points to, as parse_file reads them
BaseConfigFile ==
    [ConfigDelta_default EXCEPT
       !.architecture = Some("amd64"),
       !.config = Some([NoExecutionConfig EXCEPT
                          !.env = Some(<<"BASE=1">>),
                          !.labels = Some("B" :> "base")]),
       !.rootfs = Some([fs_type |-> Some("layers"),
                        diff_ids |-> Some(<<FormatSha256(Sha256(<<"base", "tar">>))>>)])]
BaseManifestFile ==
    [Manifest_default EXCEPT
       !.schema_version = 2,
       !.specification_type = "Docker",
       !.layers = <<[blob_reference_type |-> "LayerGz",
                     specification_type |-> "Docker",
                     size |-> 7,
                     digest |-> FormatSha256(Sha256(<<"base", "tgz">>))]>>]

RemoteMetadatas ==
    {None} \cup {Some([config |-> c, manifest |-> m]) :
                    c \in {None, Some("base_config.json")},
                    m \in {None, Some("base_manifest.json")}}

\* the configs of the rules: labels and env, or a rootfs
RulesConfig ==
    [ConfigDelta_default EXCEPT
       !.config = Some([NoExecutionConfig EXCEPT
                          !.env = Some(<<"RULE=1">>),
                          !.labels = Some("A" :> "z")])]
RootFsConfig ==
    [ConfigDelta_default EXCEPT
       !.rootfs = Some([fs_type |-> Some("layers"),
                        diff_ids |-> Some(<<FormatSha256(Sha256(<<"given">>))>>)])]

Infos ==
    {[data |-> d, config |-> c] :
        d \in {None} \cup {Some(p) : p \in DOMAIN LayerFiles
                                          \cup {MissingLayer}},
        c \in {None, Some(RulesConfig), Some(RootFsConfig)}}

RECURSIVE SeqsUpTo(_, _)
SeqsUpTo(S, n) ==
    IF n = 0 THEN {<<>>}
    ELSE LET shorter == SeqsUpTo(S, n - 1)
         IN shorter \cup {Append(q, x) : q \in shorter, x \in S}

ExternalConfig ==
    [NoExecutionConfig EXCEPT
       !.env = Some(<<"EXT=1">>),
       !.labels = Some(("A" :> "x") @@ ("B" :> "y"))]
ExternalConfigLists == {<<>>, <<ExternalConfig>>}

\* the key of lut_data
LutKeyCompressedOnly(path, compressed) == <<"", compressed>>
LutKey(path, compressed) == <<path, compressed>>

\* `external_base_cfg.config = Some(config)` on a default delta
external_base_cfg(config) ==
    [ConfigDelta_default EXCEPT !.config = Some(config)]

RECURSIVE UpdateWithExternals(_, _)
UpdateWithExternals(cfg, configs) ==
    IF configs = <<>> THEN cfg
    ELSE UpdateWithExternals(
             ConfigDelta_update_with(cfg, external_base_cfg(Head(configs))),
             Tail(configs))

\* the infos that carry data, in order
RECURSIVE DataPaths(_)
DataPaths(infos) ==
    IF infos = <<>> THEN <<>>
    ELSE LET rest == DataPaths(SubSeq(infos, 1, Len(infos) - 1))
             last == infos[Len(infos)]
         IN IF last.data = None THEN rest
            ELSE Append(rest, rel_as_path(last.data[1]))

\* merge up to the hashing: cfg and manifest are the defaults or what the
\* files of remote_metadata hold
ParseBase ==
    /\ mg.pc = "base"
    /\ LET rm == mg.remote_metadata
       IN mg' = [mg EXCEPT
            !.cfg = IF rm # None /\ rm[1].config # None
                    THEN BaseConfigFile ELSE ConfigDelta_default,
            !.manifest = IF rm # None /\ rm[1].manifest # None
                         THEN BaseManifestFile ELSE Manifest_default,
            !.pc = "pass_one"]
    /\ UNCHANGED <<pusherVars, httpVars, ioVars, dl, pureVars>>

\* the first loop over the infos: two hashing tasks per layer file, or the
\* bail at the first layer file that does not exist
SpawnHashTasks ==
    /\ mg.pc = "pass_one"
    /\ LET paths == DataPaths(mg.infos)
           spawned == [k \in 1..(2 * Len(paths)) |->
                         [path |-> paths[(k + 1) \div 2],
                          compressed |-> (k % 2 = 1),
                          finished |-> FALSE]]
       IN mg' = IF \E k \in 1..Len(paths) : paths[k] \notin DOMAIN LayerFiles
                THEN [mg EXCEPT !.pc = "done", !.result = "err"]
                ELSE [mg EXCEPT !.pass_one_data = spawned, !.idx = 1,
                                !.pc = IF spawned = <<>> THEN "externals"
                                       ELSE "await"]
    /\ UNCHANGED <<pusherVars, httpVars, ioVars, dl, pureVars>>

\* a spawned hashing task runs to its end
HashTaskCompletes(k) ==
    /\ mg.pc = "await"
    /\ k \in DOMAIN mg.pass_one_data
    /\ ~mg.pass_one_data[k].finished
    /\ mg' = [mg EXCEPT
                !.pass_one_data[k].finished = TRUE,
                !.overtaken = @ \/ \E j \in 1..(k - 1) :
                                      ~mg.pass_one_data[j].finished]
    /\ UNCHANGED <<pusherVars, httpVars, ioVars, dl, pureVars>>

\* one turn of `for m in pass_one_data { let s = m.await??; insert }`
AwaitHashTask ==
    /\ mg.pc = "await"
    /\ mg.pass_one_data[mg.idx].finished
    /\ LET s == mg.pass_one_data[mg.idx]
           value == IF s.compressed THEN from_path(s.path)
                    ELSE from_path_uncompressed(s.path)
       IN mg' = [mg EXCEPT
            !.lut_data = (LutKey(s.path, s.compressed) :> value) @@ @,
            !.idx = IF mg.idx < Len(mg.pass_one_data) THEN @ + 1 ELSE 1,
            !.pc = IF mg.idx < Len(mg.pass_one_data) THEN "await"
                   ELSE "externals"]
    /\ UNCHANGED <<pusherVars, httpVars, ioVars, dl, pureVars>>

\* the external configs left out
ApplyExternalConfigsSkipped ==
    /\ mg.pc = "externals"
    /\ mg' = [mg EXCEPT !.idx = 1, !.pc = "infos"]
    /\ UNCHANGED <<pusherVars, httpVars, ioVars, dl, pureVars>>

\* `for config in external_execution_configs { cfg.update_with(..) }`
ApplyExternalConfigs ==
    /\ mg.pc = "externals"
    /\ mg' = [mg EXCEPT
                !.cfg = UpdateWithExternals(mg.cfg,
                                            mg.external_execution_configs),
                !.idx = 1, !.pc = "infos"]
    /\ UNCHANGED <<pusherVars, httpVars, ioVars, dl, pureVars>>

\* one turn of the second loop over the infos
MergeInfo ==
    /\ mg.pc = "infos"
    /\ mg.idx <= Len(mg.infos)
    /\ LET info == mg.infos[mg.idx]
           cfg1 == IF info.config # None
                   THEN ConfigDelta_update_with(mg.cfg, info.config[1])
                   ELSE mg.cfg
           pb == rel_as_path(info.data[1])
       IN mg' =
            IF info.data = None
            THEN [mg EXCEPT !.cfg = cfg1, !.idx = @ + 1]
            ELSE IF \/ pb \notin DOMAIN LayerFiles
                    \/ LutKey(pb, TRUE) \notin DOMAIN mg.lut_data
                    \/ LutKey(pb, FALSE) \notin DOMAIN mg.lut_data
            THEN [mg EXCEPT !.cfg = cfg1, !.pc = "done", !.result = "err"]
            ELSE LET c == mg.lut_data[LutKey(pb, TRUE)]
                     u == mg.lut_data[LutKey(pb, FALSE)]
                 IN [mg EXCEPT
                       !.cfg = ConfigDelta_add_layer(cfg1, u.sha),
                       !.manifest = Manifest_add_layer(@, c.sha, c.len,
                                                       "LayerGz"),
                       !.layer_uploads.layers =
                           Append(@, [content |-> info.data[1],
                                      sha256 |-> c.sha,
                                      compressed_size |-> c.len,
                                      inner_sha_v |-> u.sha,
                                      uncompressed_size |-> u.len]),
                       !.idx = @ + 1]
    /\ UNCHANGED <<pusherVars, httpVars, ioVars, dl, pureVars>>

\* `Ok((cfg, manifest, layer_uploads))`
MergeReturn ==
    /\ mg.pc = "infos"
    /\ mg.idx > Len(mg.infos)
    /\ mg' = [mg EXCEPT !.pc = "done", !.result = "ok"]
    /\ UNCHANGED <<pusherVars, httpVars, ioVars, dl, pureVars>>

InitMerge ==
    /\ PusherIdle
    /\ HttpIdle
    /\ IoIdle
    /\ dl = <<>>
    /\ PureIdle
    /\ \E infos \in SeqsUpTo(Infos, MaxInfos),
          rm \in RemoteMetadatas,
          ext \in ExternalConfigLists :
         mg = [infos |-> infos, remote_metadata |-> rm,
               external_execution_configs |-> ext,
               pc |-> "base", result |-> "none",
               cfg |-> ConfigDelta_default, manifest |-> Manifest_default,
               layer_uploads |-> [layers |-> <<>>], pass_one_data |-> <<>>,
               lut_data |-> <<>>, idx |-> 0, overtaken |-> FALSE]

NextMerge ==
    \/ ParseBase
    \/ SpawnHashTasks
    \/ \E k \in 1..(2 * MaxInfos) : HashTaskCompletes(k)
    \/ AwaitHashTask
    \/ ApplyExternalConfigs
    \/ MergeInfo
    \/ MergeReturn

SpecMerge == InitMerge /\ [][NextMerge]_vars


(***************************************************************************)
(* Properties of merge(), checked under SpecMerge                          *)
(***************************************************************************)
MergeOk == mg # <<>> /\ mg.pc = "done" /\ mg.result = "ok"

\* what merge starts from: the parsed files of remote_metadata or defaults
BaseConfig ==
    IF mg.remote_metadata # None /\ mg.remote_metadata[1].config # None
    THEN BaseConfigFile ELSE ConfigDelta_default
BaseManifest ==
    IF mg.remote_metadata # None /\ mg.remote_metadata[1].manifest # None
    THEN BaseManifestFile ELSE Manifest_default

DiffIds(cfg) ==
    IF cfg.rootfs = None \/ cfg.rootfs[1].diff_ids = None THEN <<>>
    ELSE cfg.rootfs[1].diff_ids[1]

\* some info's config carries rootfs.diff_ids
InfoSetsDiffIds ==
    \E i \in DOMAIN mg.infos :
        /\ mg.infos[i].config # None
        /\ DiffIds(mg.infos[i].config[1]) # <<>>

\* C17: the result of merge() has one manifest layer and one LayerUploads
\* entry per info with data on top of the layers of the base manifest, and,
\* when no info's config carries rootfs.diff_ids, one diff_id per info with
\* data on top of the diff_ids of the base config.
C17_LayerCountsOverBase ==
    MergeOk =>
        LET n == Len(DataPaths(mg.infos))
        IN /\ Len(mg.manifest.layers) = Len(BaseManifest.layers) + n
           /\ Len(mg.layer_uploads.layers) = n
           /\ ~InfoSetsDiffIds
                => Len(DiffIds(mg.cfg)) = Len(DiffIds(BaseConfig)) + n

\* two layers were merged on top of a base manifest and a base config
C17_Witness ==
    /\ MergeOk
    /\ Len(DataPaths(mg.infos)) = 2
    /\ Len(BaseManifest.layers) = 1
    /\ Len(mg.manifest.layers) = 3
    /\ Len(DiffIds(mg.cfg)) = 3

\* the counts of C17 as first stated: for any MergeConfig, with or without
\* a base, the manifest layers and the diff_ids of the result both number
\* the infos with data.
C17_LayerCounts ==
    MergeOk =>
        /\ Len(mg.manifest.layers) = Len(DataPaths(mg.infos))
        /\ Len(DiffIds(mg.cfg)) = Len(DataPaths(mg.infos))

\* the manifest layer and the diff_id that merge makes of a layer file
LayerOf(path, specification_type) ==
    [blob_reference_type |-> "LayerGz",
     specification_type |-> specification_type,
     size |-> Len(LayerFiles[path].bytes),
     digest |-> FormatSha256(Sha256(LayerFiles[path].bytes))]
DiffIdOf(path) == FormatSha256(Sha256(LayerFiles[path].decoded))

\* C18: after merge() the layers that follow those of the base manifest are
\* in the order of the infos with data: the i-th of them is a LayerGz
\* reference with the sha256 and the length of the i-th layer file's bytes
\* as they are, the i-th LayerUploads entry carries both digests of that
\* file, and, when no info's config carries rootfs.diff_ids, the i-th
\* diff_id after those of the base config is "sha256:" and the sha256 of the
\* file's decoded bytes; in whatever order the hashing tasks complete.
C18_LayerOrderOverBase ==
    MergeOk =>
        LET paths == DataPaths(mg.infos)
            k == Len(BaseManifest.layers)
            kd == Len(DiffIds(BaseConfig))
        IN \A i \in DOMAIN paths :
              /\ k + i <= Len(mg.manifest.layers)
              /\ mg.manifest.layers[k + i]
                   = LayerOf(paths[i], BaseManifest.specification_type)
              /\ i <= Len(mg.layer_uploads.layers)
              /\ mg.layer_uploads.layers[i].sha256
                   = Sha256(LayerFiles[paths[i]].bytes)
              /\ mg.layer_uploads.layers[i].inner_sha_v
                   = Sha256(LayerFiles[paths[i]].decoded)
              /\ ~InfoSetsDiffIds
                   => /\ kd + i <= Len(DiffIds(mg.cfg))
                      /\ DiffIds(mg.cfg)[kd + i] = DiffIdOf(paths[i])

\* two different layer files were merged after a hashing task had finished
\* before one spawned earlier
C18_Witness ==
    /\ MergeOk
    /\ mg.overtaken
    /\ DataPaths(mg.infos) = <<"b.tgz", "a.tgz">>
    /\ Len(mg.manifest.layers) = 2
    /\ mg.manifest.layers[1].size = 4
    /\ mg.manifest.layers[2].size = 3

\* the order of C18 as first stated: the i-th manifest layer is the LayerGz
\* reference of the i-th layer file and the i-th diff_id is that of its
\* decoded bytes.
C18_LayerOrder ==
    MergeOk =>
        LET paths == DataPaths(mg.infos)
        IN \A i \in DOMAIN paths :
              /\ i <= Len(mg.manifest.layers)
              /\ mg.manifest.layers[i].blob_reference_type = "LayerGz"
              /\ mg.manifest.layers[i].digest
                   = FormatSha256(Sha256(LayerFiles[paths[i]].bytes))
              /\ mg.manifest.layers[i].size = Len(LayerFiles[paths[i]].bytes)
              /\ i <= Len(DiffIds(mg.cfg))
              /\ DiffIds(mg.cfg)[i] = DiffIdOf(paths[i])

\* the deltas in the order merge applies them to the default delta
AppliedDeltas ==
    <<BaseConfig>>
    \o [i \in DOMAIN mg.external_execution_configs |->
          external_base_cfg(mg.external_execution_configs[i])]
    \o [i \in DOMAIN mg.infos |->
          IF mg.infos[i].config = None THEN ConfigDelta_default
          ELSE mg.infos[i].config[1]]

FieldsOf(deltas, f) == [i \in DOMAIN deltas |-> Field(deltas[i], f)]

LabelOf(cfg, k) ==
    LET l == Field(cfg, "labels")
    IN IF l # None /\ k \in DOMAIN l[1] THEN Some(l[1][k]) ELSE None

\* C19: merge() applies the external execution configs before the infos'
\* configs: each label of the result has the value of the last delta that
\* sets it in the order base, externals, infos, so an info's value wins over
\* an external one and a label only the external config sets is kept; the
\* result Env is the entries of the base, then of the externals, then of the
\* infos.
C19_ExternalsBeforeInfos ==
    MergeOk =>
        /\ Field(mg.cfg, "env") = ConcatSome(FieldsOf(AppliedDeltas, "env"))
        /\ \A k \in LabelKeys :
              LabelOf(mg.cfg, k)
                 = LastLabel(FieldsOf(AppliedDeltas, "labels"), k)
        /\ \A i \in DOMAIN mg.infos, k \in LabelKeys :
              /\ mg.external_execution_configs # <<>>
              /\ mg.infos[i].config # None
              /\ LabelOf(mg.infos[i].config[1], k) # None
              /\ \A j \in DOMAIN mg.infos :
                    j > i /\ mg.infos[j].config # None
                       => LabelOf(mg.infos[j].config[1], k) = None
              => LabelOf(mg.cfg, k) = LabelOf(mg.infos[i].config[1], k)
        /\ \A k \in LabelKeys :
              /\ mg.external_execution_configs # <<>>
              /\ \A i \in DOMAIN mg.infos :
                    mg.infos[i].config # None
                       => LabelOf(mg.infos[i].config[1], k) = None
              => LabelOf(mg.cfg, k)
                   = LabelOf(external_base_cfg(
                        mg.external_execution_configs[
                           Len(mg.external_execution_configs)]), k)

\* an external config with labels A and B and an Env entry was merged with
\* an info whose config sets label A and an Env entry
C19_Witness ==
    /\ MergeOk
    /\ mg.external_execution_configs = <<ExternalConfig>>
    /\ mg.remote_metadata = None
    /\ \E i \in DOMAIN mg.infos : mg.infos[i].config = Some(RulesConfig)
    /\ LabelOf(mg.cfg, "A") = Some("z")
    /\ LabelOf(mg.cfg, "B") = Some("y")
    /\ Field(mg.cfg, "env") = Some(<<"EXT=1", "RULE=1">>)


\* C21: ConfigDelta::update_with updates rootfs field by field and keeps the
\* receiver's rootfs.diff_ids unless the delta supplies a non-empty list:
\* after a.update_with(b), where a has diff_ids and the rootfs of b has
\* diff_ids absent or empty, the diff_ids are those of a.
C21_DiffIdsKept ==
    /\ dl # <<>>
    /\ dl.pc # "ab"
    /\ dl.a.rootfs # None
    /\ dl.a.rootfs[1].diff_ids # None
    /\ dl.b.rootfs # None
    /\ dl.b.rootfs[1].diff_ids \in {None, Some(<<>>)}
    => /\ dl.ab.rootfs # None
       /\ dl.ab.rootfs[1].diff_ids = dl.a.rootfs[1].diff_ids


(***************************************************************************)
(* JSON as serde_json writes and reads it (container_specs/serde_impl.rs   *)
(* and the derived impls of container_specs/config.rs).  A JSON value is a  *)
(* record tagged with its type; an object is the sequence of its members    *)
(* <<key, value>> in the order they are written.                            *)
(***************************************************************************)
JNull == [t |-> "null"]
JStr(x) == [t |-> "string", v |-> x]
JNum(n) == [t |-> "number", v |-> n]
JArr(xs) == [t |-> "array", v |-> xs]
JObj(members) == [t |-> "object", v |-> members]
JMap(f) == [t |-> "map", v |-> f]
Member(obj, key) ==
    obj.v[CHOOSE i \in DOMAIN obj.v : obj.v[i][1] = key][2]

\* what the derived Serialize writes for an Option field
JOptStr(o) == IF o = None THEN JNull ELSE JStr(o[1])
JOptList(o) ==
    IF o = None THEN JNull
    ELSE JArr([i \in DOMAIN o[1] |-> JStr(o[1][i])])
JOptMap(o) == IF o = None THEN JNull ELSE JMap(o[1])
JOptNum(o) == IF o = None THEN JNull ELSE JNum(o[1])

\* the match of `impl Serialize for BlobReference`
MediaType(specification_type, blob_reference_type) ==
    CASE specification_type = "Oci" /\ blob_reference_type = "Config"
           -> "application/vnd.oci.image.config.v1+json"
      [] specification_type = "Docker" /\ blob_reference_type = "Config"
           -> "application/vnd.docker.container.image.v1+json"
      [] specification_type = "Oci" /\ blob_reference_type = "LayerGz"
           -> "application/vnd.oci.image.layer.v1.tar+gzip"
      [] specification_type = "Oci" /\ blob_reference_type = "Layer"
           -> "application/vnd.oci.image.layer.v1.tar"
      [] specification_type = "Docker" /\ blob_reference_type = "LayerGz"
           -> "application/vnd.docker.image.rootfs.diff.tar.gzip"
      [] specification_type = "Docker" /\ blob_reference_type = "Layer"
           -> "application/vnd.docker.image.rootfs.diff.tar"

BlobReference_serialize(self) ==
    JObj(<< <<"mediaType", JStr(MediaType(self.specification_type,
                                          self.blob_reference_type))>>,
            <<"size", JNum(self.size)>>,
            <<"digest", JStr(self.digest)>> >>)

\* the match of `impl Deserialize for BlobReference`: the pair
\* <<specification type, blob reference type>>, or <<>> for `other`
MediaTypeParsed(media_type) ==
    CASE media_type = "application/vnd.oci.image.config.v1+json"
           -> <<"Oci", "Config">>
      [] media_type = "application/vnd.docker.container.image.v1+json"
           -> <<"Docker", "Config">>
      [] media_type = "application/vnd.oci.image.layer.v1.tar+gzip"
           -> <<"Oci", "LayerGz">>
      [] media_type = "application/vnd.oci.image.layer.v1.tar"
           -> <<"Oci", "Layer">>
      [] media_type = "application/vnd.docker.image.rootfs.diff.tar.gzip"
           -> <<"Docker", "Layer">>
      [] media_type = "application/vnd.docker.image.rootfs.diff.tar"
           -> <<"Docker", "Layer">>
      [] OTHER -> <<>>

BlobReference_deserialize(json) ==
    LET r == [media_type |-> Member(json, "mediaType").v,
              size |-> Member(json, "size").v,
              digest |-> Member(json, "digest").v]
        parsed == MediaTypeParsed(r.media_type)
    IN IF parsed = <<>>
       THEN [ok |-> FALSE, error |-> "Invalid media type"]
       ELSE [ok |-> TRUE,
             value |-> [blob_reference_type |-> parsed[2],
                        specification_type |-> parsed[1],
                        size |-> r.size, digest |-> r.digest]]

\* Manifest::media_type
Manifest_media_type(self) ==
    IF self.specification_type = "Oci"
    THEN "application/vnd.oci.image.manifest.v1+json"
    ELSE "application/vnd.docker.distribution.manifest.v2+json"

\* `impl Serialize for Manifest`
Manifest_serialize(self) ==
    JObj(<< <<"mediaType", JStr(Manifest_media_type(self))>>,
            <<"schemaVersion", JNum(self.schema_version)>>,
            <<"config", BlobReference_serialize(self.config)>>,
            <<"layers", JArr([i \in DOMAIN self.layers |->
                                BlobReference_serialize(self.layers[i])])>> >>)

Manifest_set_specification_type(self, specification_type) ==
    [self EXCEPT
       !.config.specification_type = specification_type,
       !.layers = [i \in DOMAIN self.layers |->
                     [self.layers[i] EXCEPT
                        !.specification_type = specification_type]]]

\* the derived Serialize of ExecutionConfig, RootFs, HistoryItem, ConfigDelta
ExecutionConfig_serialize(self) ==
    JObj(<< <<"User", JOptStr(self.user)>>,
            <<"ExposedPorts", JOptMap(self.exposed_ports)>>,
            <<"Env", JOptList(self.env)>>,
            <<"Entrypoint", JOptList(self.entrypoint)>>,
            <<"Cmd", JOptList(self.cmd)>>,
            <<"Volumes", JOptList(self.volumes)>>,
            <<"WorkingDir", JOptStr(self.working_dir)>>,
            <<"Labels", JOptMap(self.labels)>>,
            <<"StopSignal", JOptStr(self.stop_signal)>>,
            <<"Memory", JOptNum(self.memory)>>,
            <<"MemorySwap", JOptNum(self.memory_swap)>>,
            <<"CpuShares", JOptNum(self.cpu_shares)>>,
            <<"Healthcheck", JOptMap(self.healthcheck)>> >>)

RootFs_serialize(self) ==
    JObj(<< <<"type", JOptStr(self.fs_type)>>,
            <<"diff_ids", JOptList(self.diff_ids)>> >>)

HistoryItem_serialize(self) ==
    JObj(<< <<"created", JOptStr(self.created)>>,
            <<"author", JOptStr(self.author)>>,
            <<"created_by", JOptStr(self.created_by)>>,
            <<"comment", JOptStr(self.comment)>>,
            <<"empty_layer", JOptStr(self.empty_layer)>> >>)

ConfigDelta_serialize(self) ==
    JObj(<< <<"created", JOptStr(self.created)>>,
            <<"author", JOptStr(self.author)>>,
            <<"architecture", JOptStr(self.architecture)>>,
            <<"os", JOptStr(self.os)>>,
            <<"os.version", JOptStr(self.os_version)>>,
            <<"os.features", JOptStr(self.os_features)>>,
            <<"variant", JOptStr(self.variant)>>,
            <<"config", IF self.config = None THEN JNull
                        ELSE ExecutionConfig_serialize(self.config[1])>>,
            <<"rootfs", IF self.rootfs = None THEN JNull
                        ELSE RootFs_serialize(self.rootfs[1])>>,
            <<"history", IF self.history = None THEN JNull
                         ELSE JArr([i \in DOMAIN self.history[1] |->
                                 HistoryItem_serialize(self.history[1][i])])>>
         >>)

(***************************************************************************)
(* Values drawn, written as JSON and read back                             *)
(***************************************************************************)
SpecificationTypes == {"Oci", "Docker"}
MediaTypeTable ==
    {<<st, k>> : st \in SpecificationTypes, k \in {"Config", "LayerGz", "Layer"}}
BlobReferences ==
    {[blob_reference_type |-> p[2], specification_type |-> p[1],
      size |-> n, digest |-> d] :
        p \in MediaTypeTable, n \in {0, 7},
        d \in {"sha256:aa", "sha256:bb"}}
\* documents that no BlobReference is written as
ForeignBlobJson ==
    {JObj(<< <<"mediaType", JStr(mt)>>, <<"size", JNum(7)>>,
             <<"digest", JStr("sha256:aa")>> >>) :
        mt \in {"text/plain",
                "application/vnd.oci.image.layer.v1.tar+zstd",
                "application/vnd.oci.image.manifest.v1+json"}}

LayerDigests == <<"sha256:bb", "sha256:aa">>
LayerRef(st, d) ==
    [blob_reference_type |-> "LayerGz", specification_type |-> st,
     size |-> 7, digest |-> d]
Manifests ==
    {[schema_version |-> 2, name |-> None, specification_type |-> st,
      config |-> [blob_reference_type |-> "Config",
                  specification_type |-> st,
                  size |-> 3, digest |-> "sha256:cc"],
      layers |-> [i \in 1..n |-> LayerRef(st, LayerDigests[i])]] :
        st \in SpecificationTypes, n \in 0..Len(LayerDigests)}

SerdeInit(what, value, arg, json, pc) ==
    [what |-> what, value |-> value, arg |-> arg, json |-> json,
     out |-> <<>>, pc |-> pc]

SerializeBlobReference ==
    /\ sd.what = "blob" /\ sd.pc = "serialize"
    /\ sd' = [sd EXCEPT !.json = BlobReference_serialize(sd.value),
                        !.pc = "deserialize"]
    /\ UNCHANGED <<pusherVars, httpVars, ioVars, mergeVars, mm, ah, tg, db, call>>

DeserializeBlobReference ==
    /\ sd.what \in {"blob", "json"} /\ sd.pc = "deserialize"
    /\ sd' = [sd EXCEPT !.out = BlobReference_deserialize(sd.json),
                        !.pc = "done"]
    /\ UNCHANGED <<pusherVars, httpVars, ioVars, mergeVars, mm, ah, tg, db, call>>

SetSpecificationType ==
    /\ sd.what = "manifest" /\ sd.pc = "set_type"
    /\ sd' = [sd EXCEPT
                !.out = Manifest_set_specification_type(sd.value, sd.arg),
                !.pc = "serialize"]
    /\ UNCHANGED <<pusherVars, httpVars, ioVars, mergeVars, mm, ah, tg, db, call>>

SerializeManifest ==
    /\ sd.what = "manifest" /\ sd.pc = "serialize"
    /\ sd' = [sd EXCEPT !.json = Manifest_serialize(sd.out), !.pc = "done"]
    /\ UNCHANGED <<pusherVars, httpVars, ioVars, mergeVars, mm, ah, tg, db, call>>

SerializeConfigDelta ==
    /\ sd.what = "config" /\ sd.pc = "serialize"
    /\ sd' = [sd EXCEPT !.json = ConfigDelta_serialize(sd.value),
                        !.pc = "done"]
    /\ UNCHANGED <<pusherVars, httpVars, ioVars, mergeVars, mm, ah, tg, db, call>>

\* `impl Deserialize for Manifest`: RawVersion, then the match on mediaType
Manifest_deserialize(json) ==
    LET media_type == Member(json, "mediaType").v
        config == BlobReference_deserialize(Member(json, "config"))
        raw_layers == Member(json, "layers").v
        layers == [i \in DOMAIN raw_layers |->
                      BlobReference_deserialize(raw_layers[i])]
    IN IF ~config.ok \/ \E i \in DOMAIN layers : ~layers[i].ok
       THEN [ok |-> FALSE, error |-> "Invalid media type"]
       ELSE IF media_type \notin
                 {"application/vnd.oci.image.config.v1+json",
                  "application/vnd.docker.distribution.manifest.v2+json"}
       THEN [ok |-> FALSE, error |-> "Invalid media type"]
       ELSE [ok |-> TRUE,
             value |-> [schema_version |-> Member(json, "schemaVersion").v,
                        name |-> None,
                        specification_type |->
                           IF media_type
                                = "application/vnd.oci.image.config.v1+json"
                           THEN "Oci" ELSE "Docker",
                        config |-> config.value,
                        layers |-> [i \in DOMAIN layers |-> layers[i].value]]]

\* Manifest::to_bytes / write_file of the merge step
ManifestToBytes ==
    /\ sd.what = "manifest_file" /\ sd.pc = "to_bytes"
    /\ sd' = [sd EXCEPT !.json = Manifest_serialize(sd.value), !.pc = "parse"]
    /\ UNCHANGED <<pusherVars, httpVars, ioVars, mergeVars, mm, ah, tg, db, call>>

\* Manifest::parse of the pusher
ManifestParse ==
    /\ sd.what = "manifest_file" /\ sd.pc = "parse"
    /\ sd' = [sd EXCEPT !.out = Manifest_deserialize(sd.json), !.pc = "done"]
    /\ UNCHANGED <<pusherVars, httpVars, ioVars, mergeVars, mm, ah, tg, db, call>>

InitSerde ==
    /\ PusherIdle
    /\ HttpIdle
    /\ IoIdle
    /\ MergeIdle
    /\ mm = <<>> /\ ah = <<>> /\ tg = <<>> /\ db = <<>> /\ call = <<>>
    /\ \/ \E b \in BlobReferences :
            sd = SerdeInit("blob", b, <<>>, <<>>, "serialize")
       \/ \E j \in ForeignBlobJson :
            sd = SerdeInit("json", <<>>, <<>>, j, "deserialize")
       \/ \E m \in Manifests, st \in SpecificationTypes :
            sd = SerdeInit("manifest", m, st, <<>>, "set_type")
       \/ \E d \in ConfigDeltas :
            sd = SerdeInit("config", d, <<>>, <<>>, "serialize")
       \/ \E m \in Manifests :
            sd = SerdeInit("manifest_file", m, <<>>, <<>>, "to_bytes")

NextSerde ==
    \/ SerializeBlobReference
    \/ DeserializeBlobReference
    \/ SetSpecificationType
    \/ SerializeManifest
    \/ SerializeConfigDelta
    \/ ManifestToBytes
    \/ ManifestParse

SpecSerde == InitSerde /\ [][NextSerde]_vars

\* C22: a BlobReference of every (spec, kind) of the media-type table, with
\* any size and digest, is read back from the JSON written for it as the
\* same value; the six pairs are written as six different mediaTypes, each
\* read back as its pair; a document with another mediaType is rejected.
C22_BlobReferenceRoundTrip ==
    /\ sd # <<>> /\ sd.what = "blob" /\ sd.pc = "done"
         => sd.out.ok /\ sd.out.value = sd.value
    /\ sd # <<>> /\ sd.what = "json" /\ sd.pc = "done" => ~sd.out.ok
    /\ sd # <<>> /\ sd.pc = "done"
         => \A p, q \in MediaTypeTable :
               /\ MediaType(p[1], p[2]) = MediaType(q[1], q[2]) => p = q
               /\ MediaTypeParsed(MediaType(p[1], p[2])) = p

\* C23: Manifest::set_specification_type(s) returns a manifest whose own
\* specification type is s, written with the manifest media type of s, and
\* whose config and layers all have specification type s; schema version,
\* sizes, digests, kinds and the order of the layers are as before.
C23_SpecificationTypeSet ==
    sd # <<>> /\ sd.what = "manifest" /\ sd.pc \in {"serialize", "done"}
        => /\ sd.out.specification_type = sd.arg
           /\ sd.out.config.specification_type = sd.arg
           /\ sd.out.schema_version = sd.value.schema_version
           /\ sd.out.config
                = [sd.value.config EXCEPT !.specification_type = sd.arg]
           /\ Len(sd.out.layers) = Len(sd.value.layers)
           /\ \A i \in DOMAIN sd.value.layers :
                 sd.out.layers[i]
                    = [sd.value.layers[i] EXCEPT
                         !.specification_type = sd.arg]
           /\ sd.pc = "done"
                => Member(sd.json, "mediaType").v
                     = Manifest_media_type([specification_type |-> sd.arg])

HasNullMember(obj) == \E i \in DOMAIN obj.v : obj.v[i][2].t = "null"

\* C28: the JSON written for a ConfigDelta has a member only for the fields
\* that are Some: no member of the document, of its config, of its rootfs
\* or of an item of its history has the value null.
C28_NoNullWritten ==
    sd # <<>> /\ sd.what = "config" /\ sd.pc = "done"
        => /\ ~HasNullMember(sd.json)
           /\ Member(sd.json, "config").t = "object"
                => ~HasNullMember(Member(sd.json, "config"))
           /\ Member(sd.json, "rootfs").t = "object"
                => ~HasNullMember(Member(sd.json, "rootfs"))
           /\ Member(sd.json, "history").t = "array"
                => \A i \in DOMAIN Member(sd.json, "history").v :
                      ~HasNullMember(Member(sd.json, "history").v[i])


(***************************************************************************)
(* merge_main (lib.rs): the files it writes.  The bytes of a file are the  *)
(* sequence of tokens serde_json::to_writer_pretty writes for a document.  *)
(***************************************************************************)
Punct(c) == [t |-> "punct", v |-> c]

RECURSIVE Concat(_)
Concat(ss) == IF ss = <<>> THEN <<>> ELSE Head(ss) \o Concat(Tail(ss))

RECURSIVE to_writer_pretty(_)
to_writer_pretty(j) ==
    CASE j.t = "array" ->
           <<Punct("[")>>
           \o Concat([i \in DOMAIN j.v |-> to_writer_pretty(j.v[i])])
           \o <<Punct("]")>>
      [] j.t = "object" ->
           <<Punct("{")>>
           \o Concat([i \in DOMAIN j.v |->
                        <<JStr(j.v[i][1])>> \o to_writer_pretty(j.v[i][2])])
           \o <<Punct("}")>>
      [] OTHER -> <<j>>

\* Sha256Value::from_path on the files merge_main wrote
from_path_in(fs, path) ==
    [sha |-> Sha256(fs[path]), len |-> Len(fs[path])]

\* Manifest::update_config
Manifest_update_config(self, compressed_sha_v, compressed_size) ==
    [self EXCEPT !.config.size = compressed_size,
                 !.config.digest = FormatSha256(compressed_sha_v)]

config_path == "config.json"
manifest_path == "manifest.json"
manifest_sha256_path == "manifest_sha256"
upload_metadata_path == "upload_metadata.json"
OutputPaths ==
    {config_path, manifest_path, manifest_sha256_path, upload_metadata_path}

\* what an output path holds before the run: nothing, or an earlier output
Absent == <<>>
StaleBytes == <<Punct("earlier output")>>
\* File::create has truncated the file and the write failed
Truncated == <<Punct("")>>

\* the OutputLayer values merge returned
OutputLayerLists ==
    {<<>>,
     <<[short_path |-> "a.tgz", sha256 |-> Sha256(LayerFiles["a.tgz"].bytes),
        inner_sha_v |-> Sha256(LayerFiles["a.tgz"].decoded),
        compressed_size |-> Len(LayerFiles["a.tgz"].bytes)]>>}

LayerConfig_serialize(output_layer) ==
    JObj(<< <<"layer_data", JStr(output_layer.short_path)>>,
            <<"outer_sha256", JStr(FormatSha256(output_layer.sha256))>>,
            <<"inner_sha256", JStr(FormatSha256(output_layer.inner_sha_v))>>,
            <<"compressed_length", JNum(output_layer.compressed_size)>> >>)

UploadMetadata_serialize(layers, remote_metadata) ==
    JObj(<< <<"layer_configs",
              JArr([i \in DOMAIN layers |-> LayerConfig_serialize(layers[i])])>>,
            <<"remote_metadata",
              IF remote_metadata = None THEN JNull ELSE JStr(remote_metadata[1])>>
         >>)

MainFail == [mm EXCEPT !.pc = "err"]

\* merge_config.write_file(&config_path)?
WriteConfigFile ==
    /\ mm # <<>> /\ mm.pc = "write_config"
    /\ \/ mm' = [mm EXCEPT
                   !.files[config_path] =
                       to_writer_pretty(ConfigDelta_serialize(mm.merge_config)),
                   !.pc = "hash_config"]
       \/ mm' = [MainFail EXCEPT !.files[config_path] = Truncated]
    /\ UNCHANGED <<pusherVars, httpVars, ioVars, mergeVars, sd, ah, tg, db, call>>

\* the bytes at config_path before the run are hashed instead
ConfigFileHashedEarly == from_path_in(mm.before, config_path)
\* the file hashed for the config: the one at config_path, as it is now
ConfigFileHashed == from_path_in(mm.files, config_path)

\* Sha256Value::from_path(&config_path).await? ; manifest.update_config(..)
HashConfigFile ==
    /\ mm # <<>> /\ mm.pc = "hash_config"
    /\ \/ mm' = [mm EXCEPT
                   !.manifest = Manifest_update_config(mm.manifest,
                                   ConfigFileHashed.sha, ConfigFileHashed.len),
                   !.pc = "write_manifest"]
       \/ mm' = MainFail
    /\ UNCHANGED <<pusherVars, httpVars, ioVars, mergeVars, sd, ah, tg, db, call>>

\* manifest.write_file(&manifest_path)?
WriteManifestFile ==
    /\ mm # <<>> /\ mm.pc = "write_manifest"
    /\ \/ mm' = [mm EXCEPT
                   !.files[manifest_path] =
                       to_writer_pretty(Manifest_serialize(mm.manifest)),
                   !.pc = "hash_manifest"]
       \/ mm' = [MainFail EXCEPT !.files[manifest_path] = Truncated]
    /\ UNCHANGED <<pusherVars, httpVars, ioVars, mergeVars, sd, ah, tg, db, call>>

\* Sha256Value::from_path(&manifest_path).await?
HashManifestFile ==
    /\ mm # <<>> /\ mm.pc = "hash_manifest"
    /\ \/ mm' = [mm EXCEPT
                   !.manifest_sha256 = from_path_in(mm.files, manifest_path).sha,
                   !.pc = "write_sha256"]
       \/ mm' = MainFail
    /\ UNCHANGED <<pusherVars, httpVars, ioVars, mergeVars, sd, ah, tg, db, call>>

\* File::create(&opt.manifest_sha256_path)? ; write!(writer, "{}", ..)?
WriteManifestSha256 ==
    /\ mm # <<>> /\ mm.pc = "write_sha256"
    /\ \/ mm' = [mm EXCEPT
                   !.files[manifest_sha256_path] = <<JStr(mm.manifest_sha256)>>,
                   !.pc = "write_upload_metadata"]
       \/ mm' = [MainFail EXCEPT !.files[manifest_sha256_path] = Truncated]
    /\ UNCHANGED <<pusherVars, httpVars, ioVars, mergeVars, sd, ah, tg, db, call>>

\* the layer_configs loop and serde_json::to_writer_pretty(.., &upload_metadata)
WriteUploadMetadata ==
    /\ mm # <<>> /\ mm.pc = "write_upload_metadata"
    /\ \/ mm' = [mm EXCEPT
                   !.files[upload_metadata_path] =
                       to_writer_pretty(UploadMetadata_serialize(
                           mm.layers, mm.remote_metadata)),
                   !.pc = "done"]
       \/ mm' = [MainFail EXCEPT !.files[upload_metadata_path] = Truncated]
    /\ UNCHANGED <<pusherVars, httpVars, ioVars, mergeVars, sd, ah, tg, db, call>>

InitMain ==
    /\ PusherIdle
    /\ HttpIdle
    /\ IoIdle
    /\ MergeIdle
    /\ sd = <<>> /\ ah = <<>> /\ tg = <<>> /\ db = <<>> /\ call = <<>>
    /\ \E c \in ConfigDeltas, m \in Manifests, ls \in OutputLayerLists,
          before \in [OutputPaths -> {Absent, StaleBytes}] :
          /\ \A p, q \in OutputPaths : before[p] = before[q]
          /\ mm = [merge_config |-> c, merged |-> m, manifest |-> m,
                   layers |-> ls, remote_metadata |-> None,
                   before |-> before, files |-> before,
                   manifest_sha256 |-> Sha256(<<>>), pc |-> "write_config"]

NextMain ==
    \/ WriteConfigFile
    \/ HashConfigFile
    \/ WriteManifestFile
    \/ HashManifestFile
    \/ WriteManifestSha256
    \/ WriteUploadMetadata

SpecMain == InitMain /\ [][NextMain]_vars

\* C24: merge_main writes config.json first, hashes the file as written and
\* gives the manifest its digest and size, and only then writes manifest.json
\* and manifest_sha256: manifest.json is not touched before config.json holds
\* the merged config, and when merge_main has returned Ok, manifest.json is
\* the merged manifest with config.digest = "sha256:" + sha256(config.json)
\* and config.size = the length of config.json, and manifest_sha256 holds the
\* bare sha256 of the bytes of manifest.json.
C24_ConfigHashedAsWritten ==
    mm # <<>> =>
      LET config_json == mm.files[config_path]
          manifest_json == mm.files[manifest_path]
      IN /\ (manifest_json # mm.before[manifest_path]
               \/ mm.files[manifest_sha256_path]
                    # mm.before[manifest_sha256_path])
              => config_json
                   = to_writer_pretty(ConfigDelta_serialize(mm.merge_config))
         /\ mm.files[manifest_sha256_path] # mm.before[manifest_sha256_path]
              => manifest_json # mm.before[manifest_path]
         /\ mm.pc = "done" =>
              /\ manifest_json
                   = to_writer_pretty(Manifest_serialize(
                       [mm.merged EXCEPT
                          !.config.digest =
                              FormatSha256(Sha256(config_json)),
                          !.config.size = Len(config_json)]))
              /\ mm.files[manifest_sha256_path]
                   = <<JStr(Sha256(manifest_json))>>

C24_Witness ==
    /\ mm # <<>>
    /\ mm.pc = "done"
    /\ mm.before[config_path] = StaleBytes
    /\ mm.merge_config.config # None
    /\ Len(mm.merged.layers) = 2


(***************************************************************************)
(* download_blob (registry/http/blob.rs), chunk by chunk                   *)
(***************************************************************************)
BlobBytes == <<"x", "y">>
OtherBytes == <<"x", "z">>
\* the bodies a registry can stream for GET /blobs/<digest>, as chunks
ChunkedBodies ==
    {<<BlobBytes>>, << <<"x">>, <<"y">> >>, << <<"x">>, <<>>, <<"y">> >>,
     << <<"x">> >>, <<OtherBytes>>, <<BlobBytes, <<"y">> >>, <<>>}
DownloadArgs ==
    {[digest |-> FormatSha256(Sha256(b)), length |-> n] :
        b \in {BlobBytes, OtherBytes}, n \in {Len(BlobBytes), Len(BlobBytes) + 1}}

DownloadInit(args, status, chunks) ==
    [digest |-> args.digest, length |-> args.length,
     status |-> status, body |-> chunks,
     target_file |-> None, total_bytes |-> 0, hasher |-> <<>>,
     pc |-> "request", result |-> "none"]

\* request_simple(GET) and the test of the status
RequestBlob ==
    /\ db # <<>> /\ db.pc = "request"
    /\ db' = IF db.status # 200
             THEN [db EXCEPT !.pc = "done", !.result = "err"]
             ELSE [db EXCEPT !.pc = "create"]
    /\ UNCHANGED <<pusherVars, httpVars, ioVars, mergeVars, sd, mm, ah, tg, call>>

\* tokio::fs::File::create(&target_file)
CreateTargetFile ==
    /\ db # <<>> /\ db.pc = "create"
    /\ \/ db' = [db EXCEPT !.target_file = Some(<<>>), !.pc = "stream"]
       \/ db' = [db EXCEPT !.pc = "done", !.result = "err"]
    /\ UNCHANGED <<pusherVars, httpVars, ioVars, mergeVars, sd, mm, ah, tg, call>>

\* one turn of `while let Some(chunk) = body.next().await`
NextChunk ==
    /\ db # <<>> /\ db.pc = "stream" /\ db.body # <<>>
    /\ \/ LET data == Head(db.body)
          IN db' = [db EXCEPT
                      !.body = Tail(db.body),
                      !.total_bytes = db.total_bytes + Len(data),
                      !.hasher = IF data # <<>> THEN db.hasher \o data
                                 ELSE db.hasher,
                      !.target_file = Some(db.target_file[1] \o data)]
       \/ db' = [db EXCEPT !.pc = "done", !.result = "err"]
    /\ UNCHANGED <<pusherVars, httpVars, ioVars, mergeVars, sd, mm, ah, tg, call>>

\* after the loop: flush, finalize the hasher, compare sha_str with digest
FinishDownload ==
    /\ db # <<>> /\ db.pc = "stream" /\ db.body = <<>>
    /\ LET sha_str == FormatSha256(Sha256(db.hasher))
       IN db' = [db EXCEPT
                   !.pc = "done",
                   !.result = IF db.digest # sha_str THEN "err" ELSE "ok"]
    /\ UNCHANGED <<pusherVars, httpVars, ioVars, mergeVars, sd, mm, ah, tg, call>>

InitDownload ==
    /\ PusherIdle
    /\ HttpIdle
    /\ IoIdle
    /\ MergeIdle
    /\ sd = <<>> /\ mm = <<>> /\ ah = <<>> /\ tg = <<>> /\ call = <<>>
    /\ \E args \in DownloadArgs, status \in {200, 404, 500},
          chunks \in ChunkedBodies :
          /\ status # 200 => chunks = <<>>
          /\ db = DownloadInit(args, status, chunks)

NextDownload ==
    \/ RequestBlob
    \/ CreateTargetFile
    \/ NextChunk
    \/ FinishDownload

SpecDownload == InitDownload /\ [][NextDownload]_vars

\* C25: download_blob(target, d, length) returns Ok exactly when the sha256
\* of the received bytes is d and their number is length; it returns an
\* error whenever either differs.
C25_DownloadChecked ==
    db # <<>> /\ db.pc = "done" /\ db.target_file # None
        => (db.result = "ok"
              <=> /\ db.body = <<>>
                  /\ FormatSha256(Sha256(db.target_file[1])) = db.digest
                  /\ Len(db.target_file[1]) = db.length)


\* the cache files of the blobs: <cache_path>/<hex digest> as ensure_present
\* names them, and the same name directly under the --cache-path directory
CacheFilePaths(blob) ==
    {expected_path(cache_path, blob.digest),
     expected_path(opt_cache_path, blob.digest)}
CacheSound(fs) ==
    \A blob \in LayerBlobs \cup {manifest.config} :
       \A p \in CacheFilePaths(blob) \cap DOMAIN fs : fs[p] = ContentOf(blob)
NewCacheFiles(before, after) ==
    {p \in DOMAIN after : \E blob \in LayerBlobs \cup {manifest.config} :
                             p \in CacheFilePaths(blob)} \ DOMAIN before

C29_MountUri ==
    \A t \in TaskIds :
       task[t].calls.try_copy >= 1
          => /\ task[t].calls.try_copy = 1
             /\ try_copy_from_uri(Repository,
                                  DigestString(TaskBlob(t).digest),
                                  SourceRepository)
                  = RegistryMountRoute(Repository,
                                       DigestString(TaskBlob(t).digest),
                                       SourceRepository)


(***************************************************************************)
(* load_tags (app/pusher_app.rs).  A string is the sequence of its          *)
(* characters; strings are ordered as Rust orders them, byte by byte.       *)
(***************************************************************************)
MaxTagFileLen == 3

ByteOf ==
    ("\n" :> 10) @@ (" " :> 32) @@ ("," :> 44) @@ ("1" :> 49) @@ ("2" :> 50)
    @@ ("a" :> 97) @@ ("b" :> 98) @@ ("e" :> 101) @@ ("l" :> 108)
    @@ ("s" :> 115) @@ ("t" :> 116) @@ ("v" :> 118)
AsciiWhitespace == {" ", "\n"}

RECURSIVE StrLess(_, _)
StrLess(a, b) ==
    IF b = <<>> THEN FALSE
    ELSE IF a = <<>> THEN TRUE
    ELSE IF Head(a) # Head(b) THEN ByteOf[Head(a)] < ByteOf[Head(b)]
    ELSE StrLess(Tail(a), Tail(b))

\* str::split: the pieces between separators, empty ones included
RECURSIVE SplitAcc(_, _, _)
SplitAcc(s, seps, cur) ==
    IF s = <<>> THEN <<cur>>
    ELSE IF Head(s) \in seps
         THEN <<cur>> \o SplitAcc(Tail(s), seps, <<>>)
         ELSE SplitAcc(Tail(s), seps, Append(cur, Head(s)))
split(s, seps) == SplitAcc(s, seps, <<>>)

is_empty(e) == e = <<>>
NotEmpty(e) == ~is_empty(e)
split_ascii_whitespace(s) == SelectSeq(split(s, AsciiWhitespace), NotEmpty)

\* .split_ascii_whitespace().flat_map(|e| e.split(',')).filter(|e| !e.is_empty())
RECURSIVE FlatMapSplitComma(_)
FlatMapSplitComma(words) ==
    IF words = <<>> THEN <<>>
    ELSE split(Head(words), {","}) \o FlatMapSplitComma(Tail(words))
TagFileTokens(content) ==
    SelectSeq(FlatMapSplitComma(split_ascii_whitespace(content)), NotEmpty)

\* Vec::sort
RECURSIVE Insert(_, _)
Insert(sorted, x) ==
    IF sorted = <<>> THEN <<x>>
    ELSE IF StrLess(x, Head(sorted)) THEN <<x>> \o sorted
    ELSE <<Head(sorted)>> \o Insert(Tail(sorted), x)
RECURSIVE sort(_)
sort(v) == IF v = <<>> THEN <<>> ELSE Insert(sort(Tail(v)), Head(v))

\* Vec::dedup left out
dedup_kept(v) == v
\* Vec::dedup: of consecutive equal elements the first stays
RECURSIVE dedup(_)
dedup(v) ==
    IF Len(v) <= 1 THEN v
    ELSE IF v[1] = v[2] THEN dedup(Tail(v))
    ELSE <<v[1]>> \o dedup(Tail(v))

\* the strings of the example: "v1", "latest" and the file "latest, v2\nv1"
V1 == <<"v", "1">>
V2 == <<"v", "2">>
Latest == <<"l", "a", "t", "e", "s", "t">>
ExampleTagFile == Latest \o <<",", " ">> \o V2 \o <<"\n">> \o V1

TagChars == {"a", "b", " ", ",", "\n"}
TagFileContents ==
    UNION {[1..n -> TagChars] : n \in 0..MaxTagFileLen} \cup {ExampleTagFile}
ContainerTagsOptions ==
    {None, Some(<<>>), Some(<<<<"b">>, <<"a">>>>), Some(<<<<"a">>, <<"a">>>>),
     Some(<<<<>>, <<"b", "a">>>>), Some(<<V1, Latest>>)}
\* container_tag_file: not given, a path to no file, a file with a content
MissingFile == [exists |-> FALSE, content |-> <<>>]
TagFile(content) == [exists |-> TRUE, content |-> content]

\* `if let Some(tags) = &pusher_config.container_tags` and its loop
PushContainerTags ==
    /\ tg # <<>> /\ tg.pc = "container_tags"
    /\ tg' = [tg EXCEPT
                !.res = IF tg.container_tags # None
                        THEN tg.res \o tg.container_tags[1] ELSE tg.res,
                !.pc = "container_tag_file"]
    /\ UNCHANGED <<pusherVars, httpVars, ioVars, mergeVars, sd, mm, ah, db, call>>

\* `if let Some(f) = &pusher_config.container_tag_file` and its loop
PushTagFileTokens ==
    /\ tg # <<>> /\ tg.pc = "container_tag_file"
    /\ tg' = IF tg.container_tag_file = None
             THEN [tg EXCEPT !.pc = "sort"]
             ELSE IF ~tg.container_tag_file[1].exists
             THEN [tg EXCEPT !.pc = "done", !.result = "err"]
             ELSE [tg EXCEPT
                     !.res = tg.res
                             \o TagFileTokens(tg.container_tag_file[1].content),
                     !.pc = "sort"]
    /\ UNCHANGED <<pusherVars, httpVars, ioVars, mergeVars, sd, mm, ah, db, call>>

\* res.sort(); res.dedup(); Ok(res)
SortDedupTags ==
    /\ tg # <<>> /\ tg.pc = "sort"
    /\ tg' = [tg EXCEPT !.res = dedup(sort(tg.res)),
                        !.pc = "done", !.result = "ok"]
    /\ UNCHANGED <<pusherVars, httpVars, ioVars, mergeVars, sd, mm, ah, db, call>>

InitTags ==
    /\ PusherIdle
    /\ HttpIdle
    /\ IoIdle
    /\ MergeIdle
    /\ sd = <<>> /\ mm = <<>> /\ ah = <<>> /\ db = <<>> /\ call = <<>>
    /\ \E ct \in ContainerTagsOptions,
          f \in {None, Some(MissingFile)}
                  \cup {Some(TagFile(c)) : c \in TagFileContents} :
          tg = [container_tags |-> ct, container_tag_file |-> f,
                res |-> <<>>, pc |-> "container_tags", result |-> "none"]

NextTags ==
    \/ PushContainerTags
    \/ PushTagFileTokens
    \/ SortDedupTags

SpecTags == InitTags /\ [][NextTags]_vars

\* the tokens of a text: its maximal runs of characters that are neither
\* ASCII whitespace nor a comma
Separators == AsciiWhitespace \cup {","}
TokensOf(s) ==
    {SubSeq(s, i, j) : <<i, j>> \in
        {ij \in (DOMAIN s) \X (DOMAIN s) :
            /\ ij[1] <= ij[2]
            /\ \A k \in ij[1]..ij[2] : s[k] \notin Separators
            /\ ij[1] = 1 \/ s[ij[1] - 1] \in Separators
            /\ ij[2] = Len(s) \/ s[ij[2] + 1] \in Separators}}
ElementsOf(v) == {v[i] : i \in DOMAIN v}

\* C30: load_tags returns, strictly ascending, the union of container_tags
\* and of the non-empty tokens that splitting the content of
\* container_tag_file on ASCII whitespace and on commas gives; for
\* container_tags ["v1", "latest"] and the file "latest, v2\nv1" that is
\* ["latest", "v1", "v2"].
C30_LoadTags ==
    tg # <<>> /\ tg.pc = "done" /\ tg.result = "ok"
        => /\ ElementsOf(tg.res)
                = (IF tg.container_tags = None THEN {}
                   ELSE ElementsOf(tg.container_tags[1]))
                  \cup (IF tg.container_tag_file = None THEN {}
                        ELSE TokensOf(tg.container_tag_file[1].content))
           /\ \A i \in 1..(Len(tg.res) - 1) : StrLess(tg.res[i], tg.res[i + 1])
           /\ (/\ tg.container_tags = Some(<<V1, Latest>>)
               /\ tg.container_tag_file = Some(TagFile(ExampleTagFile)))
                => tg.res = <<Latest, V1, V2>>

C30_Witness ==
    /\ tg # <<>>
    /\ tg.pc = "done"
    /\ tg.result = "ok"
    /\ tg.container_tags = Some(<<V1, Latest>>)
    /\ tg.container_tag_file = Some(TagFile(ExampleTagFile))
    /\ Len(tg.res) = 3


(***************************************************************************)
(* BearerConfig::from_auth_header (http_cli/private_impl.rs).  A header is *)
(* a sequence of pieces of text: the words "Bearer", "realm", "service",    *)
(* "scope", other words, and the characters space, comma, quote and "=".    *)
(***************************************************************************)
Quote == "\""
NoToken == {Quote, ",", " ", "\n"}

\* index of the first x in s from position from on, 0 if there is none
RECURSIVE IndexFrom(_, _, _)
IndexFrom(s, x, from) ==
    IF from > Len(s) THEN 0
    ELSE IF s[from] = x THEN from
    ELSE IndexFrom(s, x, from + 1)

\* length of the longest prefix of s of pieces outside NoToken
RECURSIVE RunLength(_)
RunLength(s) ==
    IF s = <<>> \/ Head(s) \in NoToken THEN 0 ELSE 1 + RunLength(Tail(s))

\* captures_iter of (".*?"|[^",\s]+): the matches from left to right
RECURSIVE captures_iter(_)
captures_iter(s) ==
    IF s = <<>> THEN <<>>
    ELSE IF Head(s) = Quote
    THEN LET j == IndexFrom(s, Quote, 2)
         IN IF j # 0 /\ \A k \in 2..(j - 1) : s[k] # "\n"
            THEN <<SubSeq(s, 1, j)>> \o captures_iter(SubSeq(s, j + 1, Len(s)))
            ELSE captures_iter(Tail(s))
    ELSE IF Head(s) \in NoToken THEN captures_iter(Tail(s))
    ELSE LET n == RunLength(s)
         IN <<SubSeq(s, 1, n)>> \o captures_iter(SubSeq(s, n + 1, Len(s)))

\* value.trim_matches('"') that leaves the quotes
trim_matches_kept(v) == v
\* value.trim_matches('"')
RECURSIVE trim_matches(_)
trim_matches(v) ==
    IF v # <<>> /\ Head(v) = Quote THEN trim_matches(Tail(v))
    ELSE IF v # <<>> /\ v[Len(v)] = Quote
         THEN trim_matches(SubSeq(v, 1, Len(v) - 1))
         ELSE v

\* key.strip_suffix("=")
strip_suffix(key) ==
    IF key # <<>> /\ key[Len(key)] = "="
    THEN Some(SubSeq(key, 1, Len(key) - 1)) ELSE None

\* auth_header.strip_prefix("Bearer ")
strip_prefix(auth_header) ==
    IF Len(auth_header) >= 2 /\ SubSeq(auth_header, 1, 2) = <<"Bearer", " ">>
    THEN Some(SubSeq(auth_header, 3, Len(auth_header))) ELSE None

\* value.parse::<Uri>(): no URI is empty or holds a space or a quote
UriParse(value) ==
    IF value = <<>> \/ \E i \in DOMAIN value : value[i] \in {" ", Quote, "\n"}
    THEN None ELSE Some(value)

\* the parameters a challenge is written from
ParamKeys == {"realm", "service", "scope", "other"}
ParamValues(key) ==
    CASE key = "realm" -> {<<"https://auth/token">>, <<>>}
      [] key = "service" -> {<<"registry">>, <<>>}
      [] key = "scope" -> {<<"repo:pull", ",", "push">>, <<"a:pull", " ", "b:pull">>}
      [] OTHER -> {<<"x", "=", "y">>}
MaxParams == 4
\* the lists of at most n parameters with different keys out of keys
RECURSIVE ParamListsOver(_, _)
ParamListsOver(keys, n) ==
    IF n = 0 THEN {<<>>}
    ELSE {<<>>} \cup UNION {UNION {{<< <<k, v>> >> \o rest :
                                      rest \in ParamListsOver(keys \ {k}, n - 1)} :
                                   v \in ParamValues(k)} : k \in keys}
ParamLists == ParamListsOver(ParamKeys, MaxParams)

\* Bearer k1="v1",k2="v2",...
RECURSIVE RenderParams(_)
RenderParams(ps) ==
    IF ps = <<>> THEN <<>>
    ELSE <<ps[1][1], "=", Quote>> \o ps[1][2] \o <<Quote>>
         \o (IF Len(ps) > 1 THEN <<",">> ELSE <<>>)
         \o RenderParams(Tail(ps))
RenderHeader(ps) == <<"Bearer", " ">> \o RenderParams(ps)
\* the header with its i-th piece left out (i = 0: the header as it is)
DropPiece(s, i) ==
    IF i = 0 THEN s ELSE SubSeq(s, 1, i - 1) \o SubSeq(s, i + 1, Len(s))

AuthFail == [ah EXCEPT !.pc = "done", !.result = "err"]

\* strip_prefix("Bearer "), the tokens, the test of their number
SplitAuthHeader ==
    /\ ah # <<>> /\ ah.pc = "split"
    /\ LET stripped == strip_prefix(ah.auth_header)
       IN ah' = IF stripped = None THEN AuthFail
                ELSE LET pairs == captures_iter(stripped[1])
                     IN IF Len(pairs) % 2 # 0
                        THEN [AuthFail EXCEPT !.pairs = Some(pairs)]
                        ELSE [ah EXCEPT !.pairs = Some(pairs), !.pc = "loop"]
    /\ UNCHANGED <<pusherVars, httpVars, ioVars, mergeVars, sd, mm, tg, db, call>>

\* one turn of `for element_idx in 0..(pairs.len() / 2)`
NextPair ==
    /\ ah # <<>> /\ ah.pc = "loop"
    /\ ah.element_idx < Len(ah.pairs[1]) \div 2
    /\ LET key_pos == ah.element_idx * 2
           value_pos == key_pos + 1
           value == trim_matches(ah.pairs[1][value_pos + 1])
           stripped == strip_suffix(ah.pairs[1][key_pos + 1])
           key == trim_matches(stripped[1])
           next == [ah EXCEPT !.element_idx = ah.element_idx + 1]
       IN ah' = IF stripped = None THEN AuthFail
                ELSE IF key = <<"realm">>
                THEN IF UriParse(value) = None THEN AuthFail
                     ELSE [next EXCEPT !.realm = UriParse(value)]
                ELSE IF key = <<"service">>
                THEN [next EXCEPT !.service = Some(value)]
                ELSE IF key = <<"scope">>
                THEN [next EXCEPT !.scope = Some(value)]
                ELSE next
    /\ UNCHANGED <<pusherVars, httpVars, ioVars, mergeVars, sd, mm, tg, db, call>>

\* match (realm, service)
FinishAuthHeader ==
    /\ ah # <<>> /\ ah.pc = "loop"
    /\ ah.element_idx = Len(ah.pairs[1]) \div 2
    /\ ah' = IF ah.realm # None /\ ah.service # None
             THEN [ah EXCEPT !.pc = "done", !.result = "ok"]
             ELSE AuthFail
    /\ UNCHANGED <<pusherVars, httpVars, ioVars, mergeVars, sd, mm, tg, db, call>>

InitAuthHeader ==
    /\ PusherIdle
    /\ HttpIdle
    /\ IoIdle
    /\ MergeIdle
    /\ sd = <<>> /\ mm = <<>> /\ tg = <<>> /\ db = <<>> /\ call = <<>>
    /\ \E ps \in ParamLists :
         \E i \in 0..Len(RenderHeader(ps)) :
            ah = [params |-> ps, dropped |-> i,
                  auth_header |-> DropPiece(RenderHeader(ps), i),
                  pairs |-> None, element_idx |-> 0,
                  realm |-> None, service |-> None, scope |-> None,
                  pc |-> "split", result |-> "none"]

NextAuthHeader ==
    \/ SplitAuthHeader
    \/ NextPair
    \/ FinishAuthHeader

SpecAuthHeader == InitAuthHeader /\ [][NextAuthHeader]_vars

\* the value the parameter list gives key, None if the key is not in it
ParamOf(ps, key) ==
    IF \E i \in DOMAIN ps : ps[i][1] = key
    THEN Some(ps[CHOOSE i \in DOMAIN ps : ps[i][1] = key][2])
    ELSE None
WellFormed(a) ==
    /\ a.dropped = 0
    /\ ParamOf(a.params, "realm") # None
    /\ UriParse(ParamOf(a.params, "realm")[1]) # None
    /\ ParamOf(a.params, "service") # None
KeyTokens(pairs) == {pairs[i] : i \in {k \in DOMAIN pairs : k % 2 = 1}}

\* C27: from_auth_header succeeds on every well-formed header
\* Bearer k1="v1",k2="v2",... that has realm and service, and returns their
\* values without the quotes, the scope when there is one, whatever other
\* keys there are and with the commas of a quoted value kept; it returns an
\* error when the number of tokens is odd, when a key token does not end
\* with "=", and when realm or service is missing.
C27_AuthHeaderParsed ==
    ah # <<>> /\ ah.pc = "done"
        => /\ WellFormed(ah)
                => /\ ah.result = "ok"
                   /\ ah.realm = ParamOf(ah.params, "realm")
                   /\ ah.service = ParamOf(ah.params, "service")
                   /\ ah.scope = ParamOf(ah.params, "scope")
           /\ (/\ ah.pairs # None
               /\ \/ Len(ah.pairs[1]) % 2 # 0
                  \/ \E key \in KeyTokens(ah.pairs[1]) :
                        strip_suffix(key) = None
                  \/ <<"realm", "=">> \notin KeyTokens(ah.pairs[1])
                  \/ <<"service", "=">> \notin KeyTokens(ah.pairs[1]))
                => ah.result = "err"

C27_Witness ==
    /\ ah # <<>>
    /\ ah.pc = "done"
    /\ WellFormed(ah)
    /\ ah.result = "ok"
    /\ ah.scope = Some(<<"repo:pull", ",", "push">>)
    /\ ParamOf(ah.params, "other") # None


\* C31: ensure_present drops no error but that of try_copy_from: an error of
\* a destination or source blob_exists, of upload_blob or of download_blob
\* ends it with an error and no further request; a failed upload of the
\* local file is not followed by a look at the source registry.
C31_ErrorsPropagate ==
    \A t \in {u \in TaskIds : IsLayerTask(u)} :
       LET tr == task[t]
       IN /\ (\/ "err" \in {tr.first, tr.src1, tr.post, tr.src2}
              \/ tr.error \in {"Upload", "Download"})
               => tr.pc = "done" /\ tr.result = "err"
          /\ tr.result = "ok"
               => /\ "err" \notin {tr.first, tr.src1, tr.post, tr.src2}
                  /\ tr.error = "none"
          /\ tr.first = "err"
               => tr.calls = [NoCalls EXCEPT !.dest_exists = 1]
          /\ tr.src1 = "err"
               => tr.calls = [NoCalls EXCEPT !.dest_exists = 1,
                                             !.source_exists = 1]
          /\ tr.post = "err"
               => /\ tr.calls.upload = 0 /\ tr.calls.download = 0
                  /\ tr.src2 = "none"
          /\ tr.src2 = "err"
               => tr.calls.upload = 0 /\ tr.calls.download = 0
          /\ tr.error = "Download"
               => tr.calls.upload = 0 /\ tr.calls.download = 1
          /\ tr.error = "Upload"
               => /\ tr.calls.upload = 1
                  /\ tr.via = "local"
                       => tr.calls.download = 0 /\ tr.src2 = "none"
          /\ tr.pc \in {"src_check2", "download"} => tr.calls.upload = 0

C31_Witness ==
    \E t \in TaskIds :
       /\ IsLayerTask(t)
       /\ task[t].error = "Upload"
       /\ task[t].via = "local"
       /\ task[t].src1 = "true"
       /\ task[t].mount = "err"


\* C32: for a layer d of local_digests that the destination lacks after the
\* mount attempt, if one is made, ensure_present calls upload_blob once, with
\* the local path, and returns uploaded_from_local = 1; download_blob is
\* never called and no cache file is made for d, whether or not the source
\* registry holds d; when it does, try_copy_from is called before the upload.
C32_LocalUpload ==
    \A t \in {u \in TaskIds : IsLayerTask(u)} :
       LET tr == task[t]
           blob == TaskBlob(t)
       IN blob.digest \in DOMAIN local_digests
            => /\ tr.calls.download = 0
               /\ tr.src2 = "none" /\ tr.tmp = <<>> /\ tr.via # "source"
               /\ expected_path(cache_path, blob.digest) \notin DOMAIN files
               /\ expected_path(opt_cache_path, blob.digest) \notin DOMAIN files
               /\ tr.calls.upload <= 1
               /\ (tr.pc = "upload" \/ tr.calls.upload = 1)
                    => /\ tr.via = "local"
                       /\ tr.upath = local_digests[blob.digest]
                       /\ tr.src1 = "true" => tr.calls.try_copy = 1
               /\ (/\ tr.pc = "done"
                   /\ tr.first = "false"
                   /\ tr.src1 \in {"none", "false"} \/ tr.post = "false")
                    => /\ tr.calls.upload = 1
                       /\ tr.result = "ok"
                            => tr.actions = uploaded_from_local(blob)
                       /\ tr.result = "err" => tr.error = "Upload"

C32_Witness ==
    \E t \in TaskIds :
       /\ IsLayerTask(t)
       /\ TaskBlob(t).digest \in DOMAIN local_digests
       /\ task[t].src1 = "true"
       /\ task[t].calls.try_copy = 1
       /\ task[t].post = "false"
       /\ task[t].result = "ok"
       /\ task[t].actions.uploaded_from_local = 1


(***************************************************************************)
(* upload_blob (registry/http/blob.rs) with its URIs.  A string is the     *)
(* sequence of its pieces: a scheme, a host, a path, "?", "&", parameters.  *)
(***************************************************************************)
Schemes == {"http://", "https://"}
\* str::parse::<Uri>(): the parts of a string that is a URI
ParseUri(s) ==
    IF s = <<>> \/ \E i \in DOMAIN s : s[i] = " " THEN None
    ELSE IF s[1] \in Schemes
    THEN IF Len(s) < 2 THEN None
         ELSE Some([scheme |-> Some(s[1]), host |-> Some(s[2]),
                    path_and_query |-> SubSeq(s, 3, Len(s))])
    ELSE Some([scheme |-> None, host |-> None, path_and_query |-> s])

post_target_uri ==
    [scheme |-> Some("https://"), host |-> Some("registry"),
     path_and_query |-> <<"/v2/repo/blobs/uploads/">>]

\* the separator before digest=: always '?'
DigestSeparatorQuestion(location_str) == "?"
\* `if location_str.contains('?') { '&' } else { '?' }`
DigestSeparator(location_str) ==
    IF \E i \in DOMAIN location_str : location_str[i] = "?" THEN "&" ELSE "?"

\* format!("{}{}digest={}", location_str, chr, digest).parse::<Uri>()
LocationWithDigest(location_str, digest) ==
    ParseUri(location_str \o <<DigestSeparator(location_str), "digest=", digest>>)

\* the URI without a host takes scheme and authority of the POST's URI
WithHostOf(location_uri, base) ==
    IF location_uri.host # None THEN location_uri
    ELSE [base EXCEPT !.path_and_query = location_uri.path_and_query]

\* the Location headers a registry answers the POST with
UploadLocations ==
    {<<"https://", "uploads.cdn", "/up/1">>,
     <<"https://", "uploads.cdn", "/up/1", "?", "state=a">>,
     <<"http://", "registry", "/up/1", "?", "state=a", "&", "n=1">>,
     <<"/v2/repo/blobs/uploads/1">>,
     <<"/v2/repo/blobs/uploads/1", "?", "state=a">>,
     <<"/v2/repo/blobs/uploads/1", "?">>,
     <<"/v2/repo/blobs/uploads/1", " ", "x">>}
PostResponses ==
    {[status |-> 202, location |-> None]}
    \cup {[status |-> st, location |-> Some(l)] :
             st \in {202, 201, 500}, l \in UploadLocations}
PutResponses ==
    {[status |-> st, location |-> l] :
        st \in {201, 200, 202, 500}, l \in BOOLEAN}

UploadFail == [call EXCEPT !.pc = "done", !.result = "err"]

\* the POST to /blobs/uploads/ and what is made of its answer
PostBlobUpload ==
    /\ call # <<>> /\ call.fn = "upload_blob" /\ call.pc = "post"
    /\ \E r \in PostResponses :
         LET with_post == [call EXCEPT !.posts = call.posts + 1, !.post = Some(r)]
         IN call' =
              IF r.status # 202 \/ r.location = None
              THEN [with_post EXCEPT !.pc = "done", !.result = "err"]
              ELSE LET location_uri ==
                         LocationWithDigest(r.location[1], call.digest)
                   IN IF location_uri = None
                      THEN [with_post EXCEPT !.pc = "done", !.result = "err"]
                      ELSE [with_post EXCEPT
                              !.location_uri =
                                  Some(WithHostOf(location_uri[1],
                                                  post_target_uri)),
                              !.pc = "put"]
    /\ UNCHANGED <<pusherVars, httpVars, ioVars, mergeVars, sd, mm, ah, tg, db>>

\* the PUT of the file to location_uri and the tests of its answer
PutBlobUpload ==
    /\ call # <<>> /\ call.fn = "upload_blob" /\ call.pc = "put"
    /\ \/ /\ ~call.local_file
          /\ call' = UploadFail
       \/ /\ call.local_file
          /\ \E r \in PutResponses :
               call' = [call EXCEPT
                          !.puts = call.puts + 1,
                          !.put_uri = call.location_uri,
                          !.put = Some(r),
                          !.pc = "done",
                          !.result = IF r.status \notin {201, 200} THEN "err"
                                     ELSE IF ~r.location THEN "err"
                                     ELSE "ok"]
    /\ UNCHANGED <<pusherVars, httpVars, ioVars, mergeVars, sd, mm, ah, tg, db>>

InitUpload ==
    /\ PusherIdle
    /\ HttpIdle
    /\ IoIdle
    /\ MergeIdle
    /\ sd = <<>> /\ mm = <<>> /\ ah = <<>> /\ tg = <<>> /\ db = <<>>
    /\ \E d \in {"sha256:aa", "sha256:bb"}, f \in BOOLEAN :
         call = [fn |-> "upload_blob", digest |-> d, local_file |-> f,
                 posts |-> 0, post |-> None, location_uri |-> None,
                 puts |-> 0, put_uri |-> None, put |-> None,
                 pc |-> "post", result |-> "none"]

NextUpload ==
    \/ PostBlobUpload
    \/ PutBlobUpload

SpecUpload == InitUpload /\ [][NextUpload]_vars

\* the pieces of a Location before and after its first "?"
RECURSIVE BeforeQuery(_)
BeforeQuery(s) ==
    IF s = <<>> \/ Head(s) = "?" THEN <<>>
    ELSE <<Head(s)>> \o BeforeQuery(Tail(s))
HasQuery(s) == \E i \in DOMAIN s : s[i] = "?"
HasHost(s) == s # <<>> /\ s[1] \in Schemes

\* C33: upload_blob sends the PUT only after the POST was answered 202 with
\* a Location, and no PUT otherwise; the PUT goes to the Location with
\* digest=<d> appended after "&" when the Location holds a "?" and after "?"
\* when it does not, with the scheme and authority of the POST's URI when
\* the Location has no host; upload_blob returns Ok only if the PUT was
\* answered 201 or 200 with a Location header.
C33_UploadPutAfterPost ==
    call # <<>> /\ call.fn = "upload_blob"
        => /\ call.puts <= 1 /\ call.posts <= 1
           /\ call.puts = 1
                => /\ call.post # None
                   /\ call.post[1].status = 202
                   /\ call.post[1].location # None
                   /\ LET loc == call.post[1].location[1]
                          uri == call.put_uri[1]
                      IN /\ uri.path_and_query
                              = (IF HasHost(loc) THEN SubSeq(loc, 3, Len(loc))
                                 ELSE loc)
                                \o <<IF HasQuery(loc) THEN "&" ELSE "?",
                                     "digest=", call.digest>>
                         /\ HasHost(loc)
                              => uri.scheme = Some(loc[1])
                                 /\ uri.host = Some(loc[2])
                         /\ ~HasHost(loc)
                              => uri.scheme = post_target_uri.scheme
                                 /\ uri.host = post_target_uri.host
           /\ (call.pc = "done" /\ call.post # None
               /\ (call.post[1].status # 202 \/ call.post[1].location = None))
                => call.puts = 0 /\ call.result = "err"
           /\ call.result = "ok"
                => /\ call.puts = 1
                   /\ call.put[1].status \in {201, 200}
                   /\ call.put[1].location

C33_Witness ==
    /\ call # <<>>
    /\ call.fn = "upload_blob"
    /\ call.result = "ok"
    /\ call.post[1].location = Some(<<"/v2/repo/blobs/uploads/1", "?", "state=a">>)
    /\ call.put_uri[1].host = Some("registry")


(***************************************************************************)
(* merge_manifest (container_specs/oci_types/manifest.rs)                  *)
(***************************************************************************)
OciReference(d) ==
    [media_type |-> "application/vnd.oci.image.layer.v1.tar+gzip",
     size |-> 1, digest |-> d]
OciLayerLists ==
    {<<>>, <<OciReference("sha256:l1")>>, <<OciReference("sha256:l2")>>,
     <<OciReference("sha256:l1"), OciReference("sha256:l2")>>,
     <<OciReference("sha256:l2"), OciReference("sha256:l1")>>}
OciManifests ==
    [schema_version : {2},
     media_type : {"application/vnd.oci.image.manifest.v1+json"},
     config : {[media_type |-> "application/vnd.oci.image.config.v1+json",
                size |-> 2, digest |-> c] : c \in {"sha256:c1", "sha256:c2"}},
     layers : OciLayerLists]

\* the layers of next are put after those of current, without a test
merge_manifest_appending(current, next) ==
    [ok |-> TRUE,
     current |-> [current EXCEPT !.layers = current.layers \o next.layers]]
\* merge_manifest(current, next): the result and current afterwards
merge_manifest(current, next) ==
    IF current.layers # <<>> /\ next.layers # <<>>
    THEN [ok |-> FALSE, current |-> current]
    ELSE [ok |-> TRUE, current |-> [current EXCEPT !.layers = next.layers]]

MergeManifestCall ==
    /\ call # <<>> /\ call.fn = "merge_manifest" /\ call.pc = "start"
    /\ LET r == merge_manifest(call.current, call.next)
       IN call' = [call EXCEPT !.pc = "done", !.ok = r.ok,
                               !.current = r.current]
    /\ UNCHANGED <<pusherVars, httpVars, ioVars, mergeVars, sd, mm, ah, tg, db>>

InitMergeManifest ==
    /\ PusherIdle
    /\ HttpIdle
    /\ IoIdle
    /\ MergeIdle
    /\ sd = <<>> /\ mm = <<>> /\ ah = <<>> /\ tg = <<>> /\ db = <<>>
    /\ \E cur \in OciManifests, nxt \in OciManifests :
         call = [fn |-> "merge_manifest", before |-> cur, current |-> cur,
                 next |-> nxt, ok |-> FALSE, pc |-> "start"]

NextMergeManifest == MergeManifestCall

SpecMergeManifest == InitMergeManifest /\ [][NextMergeManifest]_vars

\* C34: merge_manifest fails when both the existing manifest and the
\* incoming one have layers, and then the existing manifest is as it was;
\* in every other case the existing manifest's layers are exactly the
\* incoming layers.
C34_MergeManifestLayers ==
    (call # <<>> /\ call.fn = "merge_manifest" /\ call.pc = "done")
        => IF call.before.layers # <<>> /\ call.next.layers # <<>>
           THEN ~call.ok /\ call.current = call.before
           ELSE call.ok /\ call.current.layers = call.next.layers

C34_Witness ==
    /\ call # <<>>
    /\ call.fn = "merge_manifest"
    /\ call.pc = "done"
    /\ call.before.layers # <<>>
    /\ call.next.layers # <<>>
    /\ call.before.layers # call.next.layers


\* C35: with --cache-path C the directory in which ensure_present creates
\* its temporary download file is C/tmp, which main has created before any
\* task starts, the cache file of a digest d is C/<d>, and so the directory
\* handed to NamedTempFile::new_in exists whenever a download starts.
C35_TempDirExists ==
    \A t \in TaskIds :
       task[t].cache_seen = "absent"
          => /\ ensure_tmp_cache_path(cache_path) \in dirs
             /\ task[t].error # "TempFile"


\* C36: HttpCli::request ends for every sequence of responses: every failed
\* attempt that does not end the loop raises attempt or auth_attempt by one
\* (a redirect raises attempt), so that one call dispatches at most
\* retries + max(retries, 3) + 2 requests, those of the token flows apart.
C36_RequestBounded ==
    \A r \in DOMAIN req :
        /\ req[r].dispatched <= req[r].retries + Max(req[r].retries, 3) + 2
        /\ req[r].attempt <= req[r].retries + 1
        /\ req[r].auth_attempt <= auth_retries(req[r]) + 1
        /\ req[r].pc = "dispatch"
             => /\ req[r].dispatched = req[r].attempt + req[r].auth_attempt
                /\ req[r].last = "Redirection"
                     => req[r].attempt = req[r].attempt_at_dispatch + 1

\* a call that used every attempt and every token flow it is allowed
C36_Witness ==
    \E r \in DOMAIN req :
        /\ req[r].pc = "done"
        /\ req[r].dispatched = req[r].retries + Max(req[r].retries, 3) + 2
        /\ "Redirection" \in req[r].seen
        /\ "AuthFailure" \in req[r].seen


\* C37: when the token acquisition fails, request returns that error at
\* once, without another attempt, and the shared token slot keeps its value;
\* the slot is written only when an acquisition succeeded (it then holds the
\* response) and on a redirect (it is then None).
C37_TokenSlotWrites ==
    [][/\ \A r \in DOMAIN req :
            /\ (req[r].pc = "auth" /\ req'[r].pc = "done")
                 => /\ auth_info' = auth_info
                    /\ req'[r].result = "AnyhowError"
                    /\ req'[r].dispatched = req[r].dispatched
            /\ (req[r].pc = "auth" /\ req'[r].pc # "done")
                 => /\ req'[r].pc = "dispatch"
                    /\ auth_info'.some
                    /\ req'[r].auth_attempt = req[r].auth_attempt + 1
            /\ req[r].pc = "done" => req'[r] = req[r]
       /\ auth_info' # auth_info
            => \E r \in DOMAIN req :
                  \/ /\ req[r].pc = "auth"
                     /\ req'[r].pc = "dispatch"
                     /\ auth_info'.some
                  \/ /\ req[r].pc = "wait"
                     /\ req'[r].pc = "dispatch"
                     /\ req'[r].last = "Redirection"
                     /\ auth_info' = NoAuthInfo]_vars

\* a token flow failed while the slot held a token: the call has ended with
\* the flow's error and the slot still holds the token
C37_Witness ==
    \E r \in DOMAIN req :
        /\ req[r].pc = "done"
        /\ req[r].last = "AuthFailure"
        /\ req[r].result = "AnyhowError"
        /\ req[r].token_flows = 2
        /\ auth_info.some
        /\ auth_info.token > 0


\* the four counts of an ActionsTaken that say how a blob got to the
\* destination
OutcomeCount(a) ==
    a.already_present + a.copied_from_source_repository
    + a.uploaded_from_local + a.uploaded_data_from_source_repository
SizesFollowCounts(a, size) ==
    /\ a.already_present_size = size * a.already_present
    /\ a.copied_from_source_repository_size
         = size * a.copied_from_source_repository
    /\ a.uploaded_from_local_size = size * a.uploaded_from_local
    /\ a.downloaded_from_source_repository_size
         = size * a.downloaded_from_source_repository
    /\ a.uploaded_data_from_source_repository_size
         = size * a.uploaded_data_from_source_repository

C39_ManifestRoundTrip ==
    sd # <<>> /\ sd.what = "manifest_file" /\ sd.pc = "done"
        => /\ sd.out.ok
           /\ sd.out.value = sd.value


(***************************************************************************)
(* The config blob of the pusher (app/pusher_app.rs): the config is        *)
(* stamped, written to a temporary file and hashed, the manifest is made   *)
(* to reference it, and every destination is offered the file.             *)
(***************************************************************************)
\* a line of the stamp file is the sequence of its pieces
StampContents ==
    {<<>>,
     << <<"STABLE_", "GIT_SHA", " ", "abc">> >>,
     << <<"BUILD_USER", " ", "me">>, <<"nospace">> >>}

RECURSIVE PiecesToString(_)
PiecesToString(ps) ==
    IF ps = <<>> THEN "" ELSE Head(ps) \o PiecesToString(Tail(ps))

\* str::split_once(" ")
split_once(ln) ==
    IF \E i \in DOMAIN ln : ln[i] = " "
    THEN LET i == CHOOSE i \in DOMAIN ln :
                     ln[i] = " " /\ \A j \in 1..(i - 1) : ln[j] # " "
         IN Some(<<SubSeq(ln, 1, i - 1), SubSeq(ln, i + 1, Len(ln))>>)
    ELSE None

\* key.strip_prefix("STABLE_").unwrap_or(key)
strip_stable(key) ==
    IF key # <<>> /\ Head(key) = "STABLE_" THEN Tail(key) ELSE key

\* `for ln in content.lines() { .. env.push(format!("{}={}", ..)) }`
RECURSIVE StampedEnv(_, _)
StampedEnv(env, lines) ==
    IF lines = <<>> THEN env
    ELSE LET kv == split_once(Head(lines))
         IN StampedEnv(IF kv = None THEN env
                       ELSE Append(env, PiecesToString(strip_stable(kv[1][1]))
                                        \o "="
                                        \o PiecesToString(kv[1][2])),
                       Tail(lines))

\* main: the config after `if pusher_config.stamp_to_env { .. }`
StampedConfig(config, stamp_to_env, stamp_info_file) ==
    IF ~stamp_to_env \/ stamp_info_file = None THEN config
    ELSE LET execution_config ==
                 IF config.config = None THEN NoExecutionConfig
                 ELSE config.config[1]
             env == IF execution_config.env = None THEN <<>>
                    ELSE execution_config.env[1]
         IN [config EXCEPT
               !.config = Some([execution_config EXCEPT
                                  !.env = Some(StampedEnv(env,
                                                   stamp_info_file[1]))])]

PushDests == {"r1", "r2"}
PushConfigs ==
    {ConfigDelta_default} \cup {c \in ConfigDeltas : c.config # None}

\* the file at the config path the pusher was given is hashed
TmpConfigHashedFromInput(c) ==
    LET bytes == to_writer_pretty(ConfigDelta_serialize(c.config_in))
    IN [sha |-> Sha256(bytes), len |-> Len(bytes)]
\* Sha256Value::from_path(&config_path) with config_path the temporary file
TmpConfigHashed(c) ==
    [sha |-> Sha256(c.tmp_config), len |-> Len(c.tmp_config)]

PushFail == [call EXCEPT !.pc = "done", !.result = "err"]

\* set_specification_type, parse_file of the config and the stamping
StampConfig ==
    /\ call # <<>> /\ call.fn = "push_config" /\ call.pc = "stamp"
    /\ call' = [call EXCEPT
                  !.manifest = Manifest_set_specification_type(
                                   call.manifest, call.registry_type),
                  !.config = StampedConfig(call.config_in, call.stamp_to_env,
                                           call.stamp_info_file),
                  !.pc = "write"]
    /\ UNCHANGED <<pusherVars, httpVars, ioVars, mergeVars, sd, mm, ah, tg, db>>

\* NamedTempFile::new, config.write_file, from_path, update_config
WriteTmpConfig ==
    /\ call # <<>> /\ call.fn = "push_config" /\ call.pc = "write"
    /\ \/ call' = PushFail
       \/ LET written == [call EXCEPT
                            !.tmp_config =
                               to_writer_pretty(
                                   ConfigDelta_serialize(call.config))]
              hashed == TmpConfigHashed(written)
              updated == Manifest_update_config(call.manifest,
                                                hashed.sha, hashed.len)
          IN call' = [written EXCEPT
                        !.config_len = hashed.len,
                        !.manifest = updated,
                        !.config_sha_printed = updated.config.digest,
                        !.pc = "tasks"]
    /\ UNCHANGED <<pusherVars, httpVars, ioVars, mergeVars, sd, mm, ah, tg, db>>

\* the config task of one destination: blob_exists, then upload_blob
ConfigBlobTask ==
    /\ call # <<>> /\ call.fn = "push_config" /\ call.pc = "tasks"
    /\ \E d \in PushDests, exists \in {"true", "false", "err"},
          uploaded \in BOOLEAN :
         /\ call.dest[d].state = "none"
         /\ call' =
              [call EXCEPT
                 !.dest[d] =
                    [state |-> IF exists = "true" THEN "ok"
                               ELSE IF exists = "err" THEN "err"
                               ELSE IF uploaded THEN "ok" ELSE "err",
                     checked |-> Some(call.config_sha_printed),
                     upload |-> IF exists = "false"
                                THEN Some([file |-> call.tmp_config,
                                           digest |-> call.config_sha_printed,
                                           length |-> call.config_len])
                                ELSE None,
                     put_manifest |-> None]]
    /\ UNCHANGED <<pusherVars, httpVars, ioVars, mergeVars, sd, mm, ah, tg, db>>

\* the join loop over the blob tasks: the first error ends the run
JoinConfigTasks ==
    /\ call # <<>> /\ call.fn = "push_config" /\ call.pc = "tasks"
    /\ \A d \in PushDests : call.dest[d].state # "none"
    /\ call' = IF \E d \in PushDests : call.dest[d].state = "err"
               THEN PushFail
               ELSE [call EXCEPT !.pc = "manifests"]
    /\ UNCHANGED <<pusherVars, httpVars, ioVars, mergeVars, sd, mm, ah, tg, db>>

\* upload_manifest of one destination: the bytes of manifest.to_bytes()
PutManifestOf ==
    /\ call # <<>> /\ call.fn = "push_config" /\ call.pc = "manifests"
    /\ \E d \in PushDests :
         /\ call.dest[d].put_manifest = None
         /\ call' = [call EXCEPT
                       !.dest[d].put_manifest =
                           Some(Manifest_serialize(call.manifest)),
                       !.result =
                           IF \A e \in PushDests \ {d} :
                                 call.dest[e].put_manifest # None
                           THEN "ok" ELSE call.result,
                       !.pc =
                           IF \A e \in PushDests \ {d} :
                                 call.dest[e].put_manifest # None
                           THEN "done" ELSE "manifests"]
    /\ UNCHANGED <<pusherVars, httpVars, ioVars, mergeVars, sd, mm, ah, tg, db>>

InitPushConfig ==
    /\ PusherIdle
    /\ HttpIdle
    /\ IoIdle
    /\ MergeIdle
    /\ sd = <<>> /\ mm = <<>> /\ ah = <<>> /\ tg = <<>> /\ db = <<>>
    /\ \E c \in PushConfigs, m \in Manifests, st \in SpecificationTypes,
          stamp_to_env \in BOOLEAN,
          stamp \in {None} \cup {Some(x) : x \in StampContents} :
         call = [fn |-> "push_config", config_in |-> c, config |-> c,
                 manifest_in |-> m, manifest |-> m, registry_type |-> st,
                 stamp_to_env |-> stamp_to_env, stamp_info_file |-> stamp,
                 tmp_config |-> <<>>, config_len |-> 0,
                 config_sha_printed |-> <<>>,
                 dest |-> [d \in PushDests |->
                             [state |-> "none", checked |-> None,
                              upload |-> None, put_manifest |-> None]],
                 pc |-> "stamp", result |-> "none"]

NextPushConfig ==
    \/ StampConfig
    \/ WriteTmpConfig
    \/ ConfigBlobTask
    \/ JoinConfigTasks
    \/ PutManifestOf

SpecPushConfig == InitPushConfig /\ [][NextPushConfig]_vars

\* the digest and size that name a sequence of bytes
DigestOfBytes(bytes) == FormatSha256(Sha256(bytes))

\* C40: the config blob offered to every destination is the config, stamped
\* when stamping is asked for, as it was written to the temporary file, and
\* the manifest uploaded afterwards references that blob: its config digest
\* is sha256: followed by the sha256 of the uploaded file's bytes and its
\* config size is their number; that digest is the one asked for with
\* blob_exists and handed to upload_blob at every destination.
C40_ManifestReferencesConfig ==
    (call # <<>> /\ call.fn = "push_config"
     /\ call.pc \in {"tasks", "manifests", "done"} /\ call.tmp_config # <<>>)
        => /\ call.tmp_config
                = to_writer_pretty(ConfigDelta_serialize(
                      StampedConfig(call.config_in, call.stamp_to_env,
                                    call.stamp_info_file)))
           /\ call.manifest.config.digest = DigestOfBytes(call.tmp_config)
           /\ call.manifest.config.size = Len(call.tmp_config)
           /\ \A d \in PushDests :
                 /\ call.dest[d].checked # None
                      => call.dest[d].checked[1] = call.manifest.config.digest
                 /\ call.dest[d].upload # None
                      => /\ call.dest[d].upload[1].digest
                              = DigestOfBytes(call.dest[d].upload[1].file)
                         /\ call.dest[d].upload[1].length
                              = Len(call.dest[d].upload[1].file)
                         /\ call.dest[d].upload[1].file = call.tmp_config
                 /\ call.dest[d].put_manifest # None
                      => LET cfg == Member(call.dest[d].put_manifest[1],
                                           "config")
                         IN /\ Member(cfg, "digest").v
                                 = DigestOfBytes(call.tmp_config)
                            /\ Member(cfg, "size").v = Len(call.tmp_config)

\* a stamped config was uploaded to one destination, found at the other, and
\* both manifests are uploaded
C40_Witness ==
    /\ call # <<>>
    /\ call.fn = "push_config"
    /\ call.result = "ok"
    /\ call.stamp_to_env
    /\ call.config # call.config_in
    /\ call.dest["r1"].upload # None
    /\ call.dest["r2"].upload = None
    /\ \A d \in PushDests : call.dest[d].put_manifest # None

====
